---------------------------- MODULE Spec2Model ----------------------------
(* Model of ezSync's parallel refurbishment core:                          *)
(*   src/ezSync/parallel_worker.py  worker_refurbish_radio and the helpers *)
(*                                  it calls (one OS process per radio),   *)
(*   src/ezSync/operations.py       refurbish_radios_parallel (main        *)
(*                                  thread), its nested monitor_status     *)
(*                                  (daemon thread) and                    *)
(*                                  verify_process_completion.             *)
(* A worker's program counter is named after the source line it is about   *)
(* to execute ("L250" = parallel_worker.py line 250).  One worker step is  *)
(* one status_queue.put or one gateway call.  Human-readable message texts *)
(* are kept without their attempt counters.                                *)
EXTENDS Integers, Sequences, FiniteSets, TLC

(***************************************************************************)
(* Bounds of the model.  The polling budgets are scaled down from the      *)
(* values the source passes (noted on each line).                          *)
(***************************************************************************)
MaxQueue == 2              \* backlog a channel may hold (manager.Queue() is unbounded)
ConnectMaxAttempts == 2    \* parallel_worker.py:254 passes max_attempts=30
ReconnectMaxAttempts == 1  \* parallel_worker.py:336 passes max_attempts=30
UpgradeChecks == 1         \* parallel_worker.py:310 range(10)
UpgradeConnAttempts == 1   \* parallel_worker.py:311 passes max_attempts=2
SpeedNumTests == 2         \* parallel_worker.py:349 passes num_tests=3
SpeedMaxAttempts == 3      \* parallel_worker.py:349 passes max_attempts=10
BatchLimit == 2            \* operations.py:819 messages_processed < 10

(***************************************************************************)
(* Data                                                                    *)
(***************************************************************************)
Serials == {"SN1", "SN2"}

\* STEPS, parallel_worker.py:228-234
STEPS == [connect |-> 1, config |-> 2, firmware |-> 3, speedtest |-> 4, final |-> 5]

TerminalStatuses == {"COMPLETED", "FAILED"}

EmptyInfo == [k \in {} |-> ""]

\* radio_info as first built by worker_refurbish_radio, parallel_worker.py:237-243
InitialRadioInfo ==
  [firmware |-> "", connected_bn |-> "", hardware |-> "", carrier_mode |-> "",
   frequencies |-> ""]

\* radio_info of wait_for_connection / wait_for_reconnection, parallel_worker.py:31, 74
BlankRadioInfo ==
  [firmware |-> "", connected_bn |-> "", hardware |-> "", carrier_mode |-> ""]

\* mutant of FetchedRadioInfo: the hostname is recorded with the first facts
FetchedRadioInfoWithHostname ==
  [firmware |-> "fw1", connected_bn |-> "BN1", hardware |-> "hw1",
   carrier_mode |-> "cm1", frequencies |-> "f0/bw0, f1/bw1", hostname |-> "IN_REFURBISHMENT"]

\* radio_info built from a successful get_radio_info answer that carries both
\* carriers, parallel_worker.py:262-276 and 414-428
FetchedRadioInfo ==
  [firmware |-> "fw1", connected_bn |-> "BN1", hardware |-> "hw1",
   carrier_mode |-> "cm1", frequencies |-> "f0/bw0, f1/bw1"]

\* softwareVersion the gateway reports after an upgrade, parallel_worker.py:317
UpgradedFirmware == "fw2"

\* downlinkThroughput figures (kbps) a completed speed test may report
DownlinkValues == {50000, 60000}
UplinkValue == 10000

\* f"{dl:.1f}/{ul:.1f} Mbps" with dl = kbps / 1000: the figure is kept in tenths
\* of a Mbps, rounded to one decimal (parallel_worker.py:356-358, 484-488)
Tenths(kbps) == (kbps + 50) \div 100
FormatSpeed(dl, ul) == <<Tenths(dl), Tenths(ul)>>

\* dict assignment d[k] = v
SetField(info, k, v) ==
  [f \in DOMAIN info \cup {k} |-> IF f = k THEN v ELSE info[f]]

\* field-wise union of two snapshots, the later one overwriting
MergeInfo(old, new) ==
  [f \in DOMAIN old \cup DOMAIN new |-> IF f \in DOMAIN new THEN new[f] ELSE old[f]]

\* the 4-tuple a worker puts on its queue
Msg(status, message, step, radio_info) ==
  [status |-> status, message |-> message, step |-> step, radio_info |-> radio_info]

VARIABLES
  radio_serial_numbers,  \* argument: the list of serials
  skip_speedtest,        \* argument
  skip_firmware,         \* argument
  gateway,               \* environment: serial -> how the vendor API answers for it
  status_board,          \* manager.dict(): serial -> entry
  status_queues,         \* serial -> manager.Queue() contents
  worker,                \* serial -> state of that radio's worker process
  monitor,               \* state of the monitor_status thread
  finished_radios,       \* monitor_status's local set
  stop_monitoring,       \* threading.Event
  main,                  \* state of the main thread in refurbish_radios_parallel
  failures,              \* return value (-1 until returned)
  emitted,               \* history: serial -> step of the last message put
  merged,                \* history: serial -> union of the snapshots applied by the monitor
  facts,                 \* history: serial -> what happened to the worker
  verdicts,              \* history: serial -> the terminal messages the worker has put
  cli                    \* state of main() in main.py, the command-line entry point

vars == <<radio_serial_numbers, skip_speedtest, skip_firmware, gateway, status_board,
          status_queues, worker, monitor, finished_radios, stop_monitoring,
          main, failures, emitted, merged, facts, verdicts, cli>>

coordVars == <<status_board, monitor, finished_radios, stop_monitoring, main,
               failures, merged>>
inputVars == <<radio_serial_numbers, skip_speedtest, skip_firmware, gateway, cli>>

Radios == {radio_serial_numbers[i] : i \in 1..Len(radio_serial_numbers)}

(***************************************************************************)
(* Worker process, parallel_worker.py                                      *)
(***************************************************************************)
IdleWorker ==
  [pc |-> "not_started", radio_info |-> EmptyInfo, q_info |-> EmptyInfo,
   attempt |-> 0, max_attempts |-> 0, has_queue |-> FALSE, caller |-> "",
   i |-> 0, successful_tests |-> 0, first_dl |-> 0, pend |-> 0,
   completed |-> FALSE]

ExitedWorker == [IdleWorker EXCEPT !.pc = "exited"]

NoFacts == [final_ok |-> FALSE, failed_call |-> 0, crashed |-> FALSE,
            raised |-> FALSE, connect_timeout |-> FALSE, upgrade |-> ""]

At(r, pc) == worker[r].pc = pc

Running(r) == worker[r].pc \notin {"not_started", "exited"}

\* what a worker has signalled so far: how many FAILED and COMPLETED messages it
\* has put (counted up to 2) and whether a non-terminal message followed a
\* terminal one
NoVerdicts == [failed |-> 0, completed |-> 0, late |-> FALSE]

Recorded(v, status) ==
  [failed |-> IF status = "FAILED" /\ v.failed < 2 THEN v.failed + 1 ELSE v.failed,
   completed |-> IF status = "COMPLETED" /\ v.completed < 2
                   THEN v.completed + 1 ELSE v.completed,
   late |-> v.late \/ (status \notin TerminalStatuses /\ v.failed + v.completed > 0)]

\* mutant of Put: every worker was handed the queue of the first radio
PutOnFirstQueue(r, status, message, step, radio_info) ==
  LET first == radio_serial_numbers[1] IN
  /\ Len(status_queues[first]) < MaxQueue
  /\ status_queues' = [status_queues EXCEPT
                         ![first] = Append(@, Msg(status, message, step, radio_info))]
  /\ emitted' = [emitted EXCEPT ![r] = step]
  /\ verdicts' = [verdicts EXCEPT ![r] = Recorded(@, status)]

\* mutant of Put: the message jumps the queue
PutAtFront(r, status, message, step, radio_info) ==
  /\ Len(status_queues[r]) < MaxQueue
  /\ status_queues' = [status_queues EXCEPT
                         ![r] = <<Msg(status, message, step, radio_info)>> \o @]
  /\ emitted' = [emitted EXCEPT ![r] = step]
  /\ verdicts' = [verdicts EXCEPT ![r] = Recorded(@, status)]

\* status_queue.put((status, message, step, radio_info))
Put(r, status, message, step, radio_info) ==
  /\ Len(status_queues[r]) < MaxQueue
  /\ status_queues' = [status_queues EXCEPT
                         ![r] = Append(@, Msg(status, message, step, radio_info))]
  /\ emitted' = [emitted EXCEPT ![r] = step]
  /\ verdicts' = [verdicts EXCEPT ![r] = Recorded(@, status)]

NoPut == UNCHANGED <<status_queues, emitted, verdicts>>

Goto(r, pc) == worker' = [worker EXCEPT ![r].pc = pc]

\* mutant of Exit: the workflow goes on to the Finalize phase instead of returning
ExitToFinalize(r) == worker' = [worker EXCEPT ![r].pc = "L363"]

\* the function returns and the process ends (finally clause with completed = False)
Exit(r) == worker' = [worker EXCEPT ![r] = ExitedWorker]

\* mutant of Raise: nothing catches the exception and the process ends
RaiseUncaught(r) ==
  /\ worker' = [worker EXCEPT ![r] = ExitedWorker]
  /\ facts' = [facts EXCEPT ![r].raised = TRUE]
  /\ NoPut

\* an exception propagates to worker_refurbish_radio's except clause, line 377
Raise(r) ==
  /\ worker' = [worker EXCEPT ![r].pc = "L379", ![r].q_info = EmptyInfo,
                              ![r].attempt = 0, ![r].max_attempts = 0,
                              ![r].has_queue = FALSE, ![r].caller = "",
                              ![r].i = 0, ![r].successful_tests = 0,
                              ![r].first_dl = 0, ![r].pend = 0]
  /\ facts' = [facts EXCEPT ![r].raised = TRUE]
  /\ NoPut

\* step of the messages of wait_for_reconnection, parallel_worker.py:78-150
ReconnectionStep == 1

\* step of the except clause's message, parallel_worker.py:379
ExceptionStep == 0


WorkerFrame == UNCHANGED <<coordVars, inputVars>>

\* What one gateway round trip may yield (api.py: get_radio_info 29-63,
\* apply_default_config 198-262, reboot_radio 545-585, upgrade_radio_firmware
\* 705-817; "raise" is an exception the api function does not catch).
\* gateway[r] = "any": every answer is possible at every call;
\*            = "healthy": the device is reachable, every call succeeds and
\*              nothing kills the worker process but the interrupt handler;
\*            = "faulty": the device is reachable, every later call fails or raises.
Answers(r, any, healthy, faulty) ==
  CASE gateway[r] = "healthy" -> healthy
    [] gateway[r] = "faulty" -> faulty
    [] OTHER -> any

ConnectionPolls(r) ==
  Answers(r, {"none", "not_connected", "connected", "raise"}, {"connected"}, {"connected"})
ReconnectionPolls(r) ==
  Answers(r, {"none", "not_connected", "connected", "connected_no_bn", "raise"},
          {"connected"}, {"none"})
InfoFetches(r) == Answers(r, {"none", "data", "raise"}, {"data"}, {"none"})
CallResults(r) == Answers(r, {"ok", "fail", "raise"}, {"ok"}, {"fail", "raise"})
UpgradeResults(r) ==
  Answers(r, {"fail", "skipped", "initiated", "raise"}, {"skipped"}, {"fail", "raise"})

(***************************************************************************)
(* wait_for_connection, parallel_worker.py:16-58.  Called with a queue and *)
(* the Connect budget from line 254, and without a queue from line 311.    *)
(***************************************************************************)
\* mutant of WfcReturn: the caller is told True whatever the polls reported
WfcReturnSuccess(w, ok) ==
  [w EXCEPT !.pc = IF w.caller = "L254" THEN "L260" ELSE "L312",
            !.q_info = EmptyInfo, !.attempt = 0, !.max_attempts = 0,
            !.has_queue = FALSE, !.caller = "", !.pend = 0]

WfcReturn(w, ok) ==
  [w EXCEPT !.pc = IF w.caller = "L254"
                     THEN (IF ok THEN "L260" ELSE "L256")
                     ELSE (IF ok THEN "L312" ELSE "L322"),
            !.q_info = EmptyInfo, !.attempt = 0, !.max_attempts = 0,
            !.has_queue = FALSE, !.caller = "", !.pend = 0]

wait_for_connection(r) ==
  LET w == worker[r] IN
  /\ WorkerFrame
  /\ \/ /\ At(r, "L30")                       \* lines 30-34
        /\ IF w.has_queue
             THEN /\ Put(r, "IN_PROGRESS", "Waiting for radio to connect", 1, BlankRadioInfo)
                  /\ worker' = [worker EXCEPT ![r].pc = "L37", ![r].attempt = 1,
                                              ![r].q_info = BlankRadioInfo]
             ELSE /\ NoPut
                  /\ worker' = [worker EXCEPT ![r].pc = "L39", ![r].attempt = 1]
        /\ UNCHANGED facts
     \/ /\ At(r, "L37")                       \* line 37
        /\ Put(r, "IN_PROGRESS", "Waiting for radio to connect", 1, w.q_info)
        /\ Goto(r, "L39")
        /\ UNCHANGED facts
     \/ /\ At(r, "L39")                       \* lines 39-52: one poll
        /\ \E rn_data \in ConnectionPolls(r) :
             IF rn_data = "raise" THEN Raise(r)
             ELSE /\ NoPut
                  /\ UNCHANGED facts
                  /\ IF rn_data = "connected"
                       THEN worker' = [worker EXCEPT ![r] =
                              IF w.has_queue THEN [w EXCEPT !.pc = "L44"]
                              ELSE WfcReturn(w, TRUE)]
                     ELSE IF w.attempt < w.max_attempts
                       THEN worker' = [worker EXCEPT ![r] =
                              IF w.has_queue
                                THEN [w EXCEPT !.pc = "L51",
                                               !.pend = IF rn_data = "none" THEN 0 ELSE 1]
                                ELSE [w EXCEPT !.attempt = @ + 1]]
                     ELSE worker' = [worker EXCEPT ![r] =
                              IF w.has_queue THEN [w EXCEPT !.pc = "L56"]
                              ELSE WfcReturn(w, FALSE)]
     \/ /\ At(r, "L44")                       \* lines 44-45
        /\ Put(r, "IN_PROGRESS", "Radio successfully connected", 1, w.q_info)
        /\ worker' = [worker EXCEPT ![r] = WfcReturn(w, TRUE)]
        /\ UNCHANGED facts
     \/ /\ At(r, "L51")                       \* lines 50-52
        /\ Put(r, "IN_PROGRESS",
               IF w.pend = 0 THEN "Waiting for connection: Device not found"
                             ELSE "Waiting for connection: Device not connected",
               1, w.q_info)
        /\ worker' = [worker EXCEPT ![r].pc = "L37", ![r].attempt = @ + 1,
                                    ![r].pend = 0]
        /\ UNCHANGED facts
     \/ /\ At(r, "L56")                       \* lines 56-58
        /\ Put(r, "FAILED", "Connection timed out after max attempts", 1, w.q_info)
        /\ worker' = [worker EXCEPT ![r] = WfcReturn(w, FALSE)]
        /\ facts' = [facts EXCEPT ![r].connect_timeout = TRUE]

(***************************************************************************)
(* wait_for_reconnection, parallel_worker.py:60-154, called from line 336. *)
(***************************************************************************)
\* mutant of AfterFirmware: the phase ends as a failed reconnection (line 338)
AfterFirmwareGivesUp == "L338"

\* line 342: where the workflow goes once the Firmware phase is over
AfterFirmware == IF skip_speedtest THEN "L360" ELSE "L343"

WfrReturn(w, ok) ==
  [w EXCEPT !.pc = IF ok THEN AfterFirmware ELSE "L338",
            !.q_info = EmptyInfo, !.attempt = 0, !.max_attempts = 0, !.pend = 0]

wait_for_reconnection(r) ==
  LET w == worker[r] IN
  /\ WorkerFrame
  /\ \/ /\ At(r, "L78")                       \* lines 74-78
        /\ Put(r, "IN_PROGRESS", "Waiting for radio to reconnect",
               ReconnectionStep, BlankRadioInfo)
        /\ worker' = [worker EXCEPT ![r].pc = "L86", ![r].q_info = BlankRadioInfo]
        /\ UNCHANGED facts
     \/ /\ At(r, "L86")                       \* lines 84-89
        /\ Put(r, "IN_PROGRESS", "Initial wait period", ReconnectionStep, w.q_info)
        /\ Goto(r, "L92")
        /\ UNCHANGED facts
     \/ /\ At(r, "L92")                       \* lines 91-96
        /\ Put(r, "IN_PROGRESS", "Starting reconnection checks", ReconnectionStep, w.q_info)
        /\ worker' = [worker EXCEPT ![r].pc = "L99", ![r].attempt = 1]
        /\ UNCHANGED facts
     \/ /\ At(r, "L99")                       \* line 99
        /\ Put(r, "IN_PROGRESS", "Reconnection check", ReconnectionStep, w.q_info)
        /\ Goto(r, "L101")
        /\ UNCHANGED facts
     \/ /\ At(r, "L101")                      \* lines 101-107
        /\ \E rn_data \in ReconnectionPolls(r) :
             IF rn_data = "raise" THEN Raise(r)
             ELSE /\ NoPut
                  /\ UNCHANGED facts
                  /\ worker' = [worker EXCEPT ![r] =
                       CASE rn_data = "none" -> [w EXCEPT !.pc = "L104"]
                         [] rn_data = "connected" -> [w EXCEPT !.pc = "L109", !.pend = 1]
                         [] rn_data = "connected_no_bn" -> [w EXCEPT !.pc = "L109", !.pend = 0]
                         [] OTHER -> [w EXCEPT !.pc = "L138"]]
     \/ /\ At(r, "L104")                      \* line 104
        /\ Put(r, "IN_PROGRESS", "Failed to get radio info", ReconnectionStep, w.q_info)
        /\ Goto(r, "L142")
        /\ UNCHANGED facts
     \/ /\ At(r, "L109")                      \* lines 109-115
        /\ Put(r, "IN_PROGRESS", "Radio connected! Getting BN info", ReconnectionStep, w.q_info)
        /\ Goto(r, IF w.pend = 0 THEN "L117" ELSE "L123")
        /\ UNCHANGED facts
     \/ /\ At(r, "L117")                      \* lines 117-120
        /\ Put(r, "FAILED", "No connected BN found", ReconnectionStep, w.q_info)
        /\ worker' = [worker EXCEPT ![r] = WfrReturn(w, FALSE)]
        /\ UNCHANGED facts
     \/ /\ At(r, "L123")                      \* line 123
        /\ Put(r, "IN_PROGRESS", "Getting BN info", ReconnectionStep, w.q_info)
        /\ Goto(r, "L127")
        /\ UNCHANGED facts
     \/ /\ At(r, "L127")                      \* lines 127-135
        /\ \E bn_data \in InfoFetches(r) :
             IF bn_data = "raise" THEN Raise(r)
             ELSE /\ NoPut
                  /\ UNCHANGED facts
                  /\ worker' = [worker EXCEPT ![r] =
                       IF bn_data = "none" THEN [w EXCEPT !.pc = "L130"]
                       ELSE WfrReturn(w, TRUE)]
     \/ /\ At(r, "L130")                      \* lines 130-133
        /\ Put(r, "FAILED", "Failed to get BN info", ReconnectionStep, w.q_info)
        /\ worker' = [worker EXCEPT ![r] = WfrReturn(w, FALSE)]
        /\ UNCHANGED facts
     \/ /\ At(r, "L138")                      \* line 138
        /\ Put(r, "IN_PROGRESS", "Radio not connected", ReconnectionStep, w.q_info)
        /\ Goto(r, "L142")
        /\ UNCHANGED facts
     \/ /\ At(r, "L142")                      \* lines 142-147, or loop end
        /\ IF w.attempt < w.max_attempts
             THEN /\ Put(r, "IN_PROGRESS", "Waiting for next check", ReconnectionStep, w.q_info)
                  /\ worker' = [worker EXCEPT ![r].pc = "L99", ![r].attempt = @ + 1]
             ELSE /\ Put(r, "FAILED", "Reconnection timed out after max attempts",
                         ReconnectionStep, w.q_info)   \* lines 149-154
                  /\ worker' = [worker EXCEPT ![r] = WfrReturn(w, FALSE)]
        /\ UNCHANGED facts

(***************************************************************************)
(* run_speed_tests_with_results, parallel_worker.py:392-526, called from   *)
(* line 349 with status_queue and step=4.                                  *)
(***************************************************************************)
\* <<status, downlinkThroughput>>; a downlink of 0 stands for an absent figure
PollResults(r) ==
  Answers(r, {<<"none", 0>>, <<"raise", 0>>, <<"FAILED", 0>>, <<"COMPLETED", 0>>}
               \cup {<<"COMPLETED", dl>> : dl \in DownlinkValues},
          {<<"COMPLETED", dl>> : dl \in DownlinkValues}, {<<"none", 0>>, <<"raise", 0>>})

\* mutant of LoopHead: rounds go on until the attempts are used up
LoopHeadPastQuota(w) ==
  IF w.attempt < SpeedMaxAttempts
    THEN [w EXCEPT !.pc = "L444", !.attempt = @ + 1, !.pend = 0]
    ELSE [w EXCEPT !.pc = IF w.first_dl = 0 THEN "L516" ELSE "L524", !.pend = 0]

\* line 440: the while condition, evaluated when control reaches the loop head
LoopHead(w) ==
  IF w.successful_tests < SpeedNumTests /\ w.attempt < SpeedMaxAttempts
    THEN [w EXCEPT !.pc = "L444", !.attempt = @ + 1, !.pend = 0]
    ELSE [w EXCEPT !.pc = IF w.first_dl = 0 THEN "L516" ELSE "L524", !.pend = 0]

\* line 506: wait between tests if not done
AfterRound(w) ==
  IF w.successful_tests < SpeedNumTests /\ w.attempt < SpeedMaxAttempts
    THEN [w EXCEPT !.pc = "L508", !.pend = 0]
    ELSE LoopHead(w)

SpeedReturn(w, pc) ==
  [w EXCEPT !.pc = pc, !.q_info = EmptyInfo, !.attempt = 0,
            !.successful_tests = 0, !.first_dl = 0, !.pend = 0]

run_speed_tests_with_results(r) ==
  LET w == worker[r] IN
  /\ WorkerFrame
  /\ \/ /\ At(r, "L412")                      \* lines 410-428
        /\ \E radio_data \in InfoFetches(r) :
             IF radio_data = "raise" THEN Raise(r)
             ELSE /\ NoPut
                  /\ UNCHANGED facts
                  /\ worker' = [worker EXCEPT ![r].pc = "L431",
                       ![r].q_info = IF radio_data = "none" THEN EmptyInfo
                                     ELSE FetchedRadioInfo]
     \/ /\ At(r, "L431")                      \* lines 431-440
        /\ Put(r, "IN_PROGRESS", "Starting speed tests", 4, w.q_info)
        /\ worker' = [worker EXCEPT ![r] =
             LoopHead([w EXCEPT !.successful_tests = 0, !.attempt = 0, !.first_dl = 0])]
        /\ UNCHANGED facts
     \/ /\ At(r, "L444")                      \* line 444
        /\ Put(r, "IN_PROGRESS", "Speed test attempt", 4, w.q_info)
        /\ Goto(r, "L449")
        /\ UNCHANGED facts
     \/ /\ At(r, "L449")                      \* lines 449-450
        /\ \E operation_id \in CallResults(r) :
             IF operation_id = "raise" THEN Raise(r)
             ELSE /\ NoPut
                  /\ UNCHANGED facts
                  /\ Goto(r, IF operation_id = "ok" THEN "L459" ELSE "L452")
     \/ /\ At(r, "L452")                      \* lines 452-455
        /\ Put(r, "IN_PROGRESS", "Failed to initiate test", 4, w.q_info)
        /\ worker' = [worker EXCEPT ![r] = LoopHead(w)]
        /\ UNCHANGED facts
     \/ /\ At(r, "L459")                      \* line 459
        /\ Put(r, "IN_PROGRESS", "Waiting for test results", 4, w.q_info)
        /\ Goto(r, "L461")
        /\ UNCHANGED facts
     \/ /\ At(r, "L461")                      \* lines 461-472
        /\ \E test_result \in PollResults(r) :
             IF test_result[1] = "raise" THEN Raise(r)
             ELSE /\ NoPut
                  /\ UNCHANGED facts
                  /\ worker' = [worker EXCEPT ![r] =
                       CASE test_result[1] = "none" -> [w EXCEPT !.pc = "L465"]
                         [] test_result[1] = "FAILED" -> [w EXCEPT !.pc = "L501"]
                         [] OTHER -> [w EXCEPT !.pc = "L474", !.pend = test_result[2]]]
     \/ /\ At(r, "L465")                      \* line 465
        /\ Put(r, "IN_PROGRESS", "Failed to get results for test", 4, w.q_info)
        /\ worker' = [worker EXCEPT ![r] = AfterRound(w)]
        /\ UNCHANGED facts
     \/ /\ At(r, "L474")                      \* lines 474-488
        /\ Put(r, "IN_PROGRESS", "Test completed successfully", 4, w.q_info)
        /\ worker' = [worker EXCEPT ![r] =
             IF w.pend # 0
               THEN [w EXCEPT !.pc = "L489",
                              !.successful_tests = @ + 1,
                              !.first_dl = IF @ = 0 THEN w.pend ELSE @,
                              !.q_info = SetField(@, "speed_test",
                                                  FormatSpeed(w.pend, UplinkValue))]
               ELSE [w EXCEPT !.pc = "L494"]]
        /\ UNCHANGED facts
     \/ /\ At(r, "L489")                      \* line 489
        /\ Put(r, "IN_PROGRESS", "Test success", 4, w.q_info)
        /\ worker' = [worker EXCEPT ![r] = AfterRound(w)]
        /\ UNCHANGED facts
     \/ /\ At(r, "L494")                      \* line 494
        /\ Put(r, "IN_PROGRESS", "Test completed but no throughput data", 4, w.q_info)
        /\ worker' = [worker EXCEPT ![r] = AfterRound(w)]
        /\ UNCHANGED facts
     \/ /\ At(r, "L501")                      \* lines 499-501
        /\ Put(r, "IN_PROGRESS", "Test failed", 4, w.q_info)
        /\ worker' = [worker EXCEPT ![r] = AfterRound(w)]
        /\ UNCHANGED facts
     \/ /\ At(r, "L508")                      \* lines 508-511
        /\ Put(r, "IN_PROGRESS", "Waiting before next test", 4, w.q_info)
        /\ worker' = [worker EXCEPT ![r] = LoopHead(w)]
        /\ UNCHANGED facts
     \/ /\ At(r, "L516")                      \* lines 514-517: returns None
        /\ Put(r, "FAILED", "No successful speed tests", 4, w.q_info)
        /\ worker' = [worker EXCEPT ![r] = SpeedReturn(w, "L351")]
        /\ UNCHANGED facts
     \/ /\ At(r, "L524")                      \* lines 521-526: returns results[0];
        /\ Put(r, "IN_PROGRESS", "Speed tests completed", 4, w.q_info)  \* then 355-358
        /\ worker' = [worker EXCEPT ![r] =
             SpeedReturn([w EXCEPT !.radio_info =
                            SetField(@, "speed_test", FormatSpeed(w.first_dl, UplinkValue))],
                         "L363")]
        /\ UNCHANGED facts

(***************************************************************************)
(* worker_refurbish_radio, parallel_worker.py:216-390                      *)
(***************************************************************************)
CallWfc(w, max_attempts, has_queue, caller) ==
  [w EXCEPT !.pc = "L30", !.max_attempts = max_attempts,
            !.has_queue = has_queue, !.caller = caller, !.attempt = 0]

\* a gateway call of phase `step` returned failure
CallFailed(r, step) == facts' = [facts EXCEPT ![r].failed_call = step]

\* mutant of UpgradeOutcomePc: skipped=true is treated as an initiated upgrade
UpgradeOutcomeIgnoringSkipped(upgrade_result) ==
  IF upgrade_result = "fail" THEN "L294" ELSE "L302"

\* lines 293-302: where the answer of upgrade_radio_firmware leads
UpgradeOutcomePc(upgrade_result) ==
  CASE upgrade_result = "fail" -> "L294"
    [] upgrade_result = "skipped" -> "L299"
    [] OTHER -> "L302"

\* upgrade_radio_firmware returned success, with skipped=true ("skipped") or
\* with an upgrade under way ("initiated"), lines 291-302
UpgradeAnswered(r, upgrade_result) == facts' = [facts EXCEPT ![r].upgrade = upgrade_result]

worker_refurbish_radio(r) ==
  LET w == worker[r] IN
  /\ WorkerFrame
  /\ \/ /\ At(r, "L250")                      \* line 250
        /\ Put(r, "IN_PROGRESS", "[1/5] Starting refurbishment", STEPS.connect, w.radio_info)
        /\ Goto(r, "L253")
        /\ UNCHANGED facts
     \/ /\ At(r, "L253")                      \* lines 253-254
        /\ Put(r, "IN_PROGRESS", "[1/5] Connecting to radio", STEPS.connect, w.radio_info)
        /\ worker' = [worker EXCEPT ![r] = CallWfc(w, ConnectMaxAttempts, TRUE, "L254")]
        /\ UNCHANGED facts
     \/ /\ At(r, "L256")                      \* lines 255-257
        /\ Put(r, "FAILED", "Failed to connect to radio", STEPS.connect, w.radio_info)
        /\ Exit(r)
        /\ UNCHANGED facts
     \/ /\ At(r, "L260")                      \* lines 260-276
        /\ \E radio_data \in InfoFetches(r) :
             IF radio_data = "raise" THEN Raise(r)
             ELSE /\ NoPut
                  /\ UNCHANGED facts
                  /\ worker' = [worker EXCEPT ![r] =
                       IF radio_data = "none" THEN [w EXCEPT !.pc = "L282"]
                       ELSE [w EXCEPT !.pc = "L279", !.radio_info = FetchedRadioInfo]]
     \/ /\ At(r, "L279")                      \* line 279
        /\ Put(r, "IN_PROGRESS", "[1/5] Connected to radio", STEPS.connect, w.radio_info)
        /\ Goto(r, "L282")
        /\ UNCHANGED facts
     \/ /\ At(r, "L282")                      \* line 282
        /\ Put(r, "IN_PROGRESS", "[2/5] Applying default configuration", STEPS.config, w.radio_info)
        /\ Goto(r, "L283")
        /\ UNCHANGED facts
     \/ /\ At(r, "L283")                      \* line 283: apply_default_config(IN_REFURBISHMENT)
        /\ \E result \in CallResults(r) :
             CASE result = "raise" -> Raise(r)
               [] result = "fail" -> NoPut /\ Goto(r, "L284") /\ CallFailed(r, STEPS.config)
               [] OTHER -> NoPut /\ Goto(r, "L288") /\ UNCHANGED facts
     \/ /\ At(r, "L284")                      \* lines 284-285
        /\ Put(r, "FAILED", "Failed to apply default configuration", STEPS.config, w.radio_info)
        /\ Exit(r)
        /\ UNCHANGED facts
     \/ /\ At(r, "L288")                      \* lines 288-289
        /\ Put(r, "IN_PROGRESS", "[3/5] Firmware management", STEPS.firmware, w.radio_info)
        /\ Goto(r, IF skip_firmware THEN "L327" ELSE "L290")
        /\ UNCHANGED facts
     \/ /\ At(r, "L290")                      \* line 290
        /\ Put(r, "IN_PROGRESS", "[3/5] Checking firmware and upgrading if needed",
               STEPS.firmware, w.radio_info)
        /\ Goto(r, "L291")
        /\ UNCHANGED facts
     \/ /\ At(r, "L291")                      \* lines 291-300: upgrade_radio_firmware
        /\ \E upgrade_result \in UpgradeResults(r) :
             CASE upgrade_result = "raise" -> Raise(r)
               [] upgrade_result = "fail" ->
                    /\ NoPut
                    /\ Goto(r, UpgradeOutcomePc(upgrade_result))
                    /\ CallFailed(r, STEPS.firmware)
               [] OTHER ->
                    /\ NoPut
                    /\ Goto(r, UpgradeOutcomePc(upgrade_result))
                    /\ UpgradeAnswered(r, upgrade_result)
     \/ /\ At(r, "L294")                      \* lines 294-295
        /\ Put(r, "FAILED", "Failed to initiate firmware upgrade", STEPS.firmware, w.radio_info)
        /\ Exit(r)
        /\ UNCHANGED facts
     \/ /\ At(r, "L299")                      \* line 299
        /\ Put(r, "IN_PROGRESS", "[3/5] Firmware already up to date", STEPS.firmware, w.radio_info)
        /\ Goto(r, AfterFirmware)
        /\ UNCHANGED facts
     \/ /\ At(r, "L302")                      \* line 302
        /\ Put(r, "IN_PROGRESS", "[3/5] Firmware upgrade in progress", STEPS.firmware, w.radio_info)
        /\ Goto(r, "L306")
        /\ UNCHANGED facts
     \/ /\ At(r, "L306")                      \* lines 305-311: settle, first check
        /\ NoPut
        /\ worker' = [worker EXCEPT ![r] =
             CallWfc([w EXCEPT !.i = 0], UpgradeConnAttempts, FALSE, "L311")]
        /\ UNCHANGED facts
     \/ /\ At(r, "L312")                      \* line 312
        /\ Put(r, "IN_PROGRESS", "[3/5] Radio reconnected after upgrade", STEPS.firmware, w.radio_info)
        /\ worker' = [worker EXCEPT ![r].pc = "L315", ![r].i = 0]
        /\ UNCHANGED facts
     \/ /\ At(r, "L315")                      \* lines 315-321
        /\ \E fresh_radio_data \in InfoFetches(r) :
             IF fresh_radio_data = "raise" THEN Raise(r)
             ELSE /\ NoPut
                  /\ UNCHANGED facts
                  /\ worker' = [worker EXCEPT ![r] =
                       IF fresh_radio_data = "none" THEN [w EXCEPT !.pc = AfterFirmware]
                       ELSE [w EXCEPT !.pc = "L318",
                                      !.radio_info = SetField(@, "firmware", UpgradedFirmware)]]
     \/ /\ At(r, "L318")                      \* line 318
        /\ Put(r, "IN_PROGRESS", "[3/5] Updated firmware", STEPS.firmware, w.radio_info)
        /\ Goto(r, AfterFirmware)
        /\ UNCHANGED facts
     \/ /\ At(r, "L322")                      \* line 322, then the next check or line 324
        /\ NoPut
        /\ worker' = [worker EXCEPT ![r] =
             IF w.i + 1 < UpgradeChecks
               THEN CallWfc([w EXCEPT !.i = @ + 1], UpgradeConnAttempts, FALSE, "L311")
               ELSE [w EXCEPT !.pc = "L325", !.i = 0]]
        /\ UNCHANGED facts
     \/ /\ At(r, "L325")                      \* line 325
        /\ Put(r, "WARNING", "[3/5] Radio did not reconnect after upgrade",
               STEPS.firmware, w.radio_info)
        /\ Goto(r, AfterFirmware)
        /\ UNCHANGED facts
     \/ /\ At(r, "L327")                      \* line 327
        /\ Put(r, "IN_PROGRESS", "[3/5] Firmware upgrade skipped", STEPS.firmware, w.radio_info)
        /\ Goto(r, "L330")
        /\ UNCHANGED facts
     \/ /\ At(r, "L330")                      \* line 330
        /\ Put(r, "IN_PROGRESS", "[3/5] Rebooting radio", STEPS.firmware, w.radio_info)
        /\ Goto(r, "L331")
        /\ UNCHANGED facts
     \/ /\ At(r, "L331")                      \* lines 331-336: reboot_radio
        /\ \E result \in CallResults(r) :
             CASE result = "raise" -> Raise(r)
               [] result = "fail" -> NoPut /\ Goto(r, "L332") /\ CallFailed(r, STEPS.firmware)
               [] OTHER -> /\ NoPut
                           /\ worker' = [worker EXCEPT ![r].pc = "L78",
                                           ![r].max_attempts = ReconnectMaxAttempts]
                           /\ UNCHANGED facts
     \/ /\ At(r, "L332")                      \* lines 332-333
        /\ Put(r, "FAILED", "Failed to reboot radio", STEPS.firmware, w.radio_info)
        /\ Exit(r)
        /\ UNCHANGED facts
     \/ /\ At(r, "L338")                      \* lines 337-339
        /\ Put(r, "FAILED", "Radio did not reconnect after reboot", STEPS.firmware, w.radio_info)
        /\ Exit(r)
        /\ UNCHANGED facts
     \/ /\ At(r, "L343")                      \* lines 343-345
        /\ Put(r, "IN_PROGRESS", "[4/5] Preparing for speed tests", STEPS.speedtest, w.radio_info)
        /\ Goto(r, "L346")
        /\ UNCHANGED facts
     \/ /\ At(r, "L346")                      \* lines 346-349
        /\ Put(r, "IN_PROGRESS", "[4/5] Running speed tests", STEPS.speedtest, w.radio_info)
        /\ Goto(r, "L412")
        /\ UNCHANGED facts
     \/ /\ At(r, "L351")                      \* lines 350-352
        /\ Put(r, "FAILED", "Speed tests failed", STEPS.speedtest, w.radio_info)
        /\ Exit(r)
        /\ UNCHANGED facts
     \/ /\ At(r, "L360")                      \* line 360
        /\ Put(r, "IN_PROGRESS", "[4/5] Speed tests skipped", STEPS.speedtest, w.radio_info)
        /\ Goto(r, "L363")
        /\ UNCHANGED facts
     \/ /\ At(r, "L363")                      \* line 363
        /\ Put(r, "IN_PROGRESS", "[5/5] Applying final configuration", STEPS.final, w.radio_info)
        /\ Goto(r, "L364")
        /\ UNCHANGED facts
     \/ /\ At(r, "L364")                      \* line 364: apply_default_config(REFURBISHED)
        /\ \E result \in CallResults(r) :
             CASE result = "raise" -> Raise(r)
               [] result = "fail" -> NoPut /\ Goto(r, "L365") /\ CallFailed(r, STEPS.final)
               [] OTHER -> /\ NoPut
                           /\ Goto(r, "L369")
                           /\ facts' = [facts EXCEPT ![r].final_ok = TRUE]
     \/ /\ At(r, "L365")                      \* lines 365-366
        /\ Put(r, "FAILED", "Failed to apply final configuration", STEPS.final, w.radio_info)
        /\ Exit(r)
        /\ UNCHANGED facts
     \/ /\ At(r, "L369")                      \* lines 369-374
        /\ \E fresh_radio_data \in InfoFetches(r) :
             IF fresh_radio_data = "raise" THEN Raise(r)
             ELSE /\ NoPut
                  /\ UNCHANGED facts
                  /\ worker' = [worker EXCEPT ![r] =
                       IF fresh_radio_data = "none" THEN [w EXCEPT !.pc = "L375"]
                       ELSE [w EXCEPT !.pc = "L375",
                                      !.radio_info = SetField(@, "hostname", "REFURBISHED")]]
     \/ /\ At(r, "L375")                      \* lines 374-375
        /\ Put(r, "COMPLETED", "Refurbishment completed successfully", STEPS.final, w.radio_info)
        /\ worker' = [worker EXCEPT ![r].pc = "L388", ![r].completed = TRUE]
        /\ UNCHANGED facts
     \/ /\ At(r, "L379")                      \* lines 377-385: except clause
        /\ Put(r, "FAILED", "Error", ExceptionStep, w.radio_info)
        /\ IF w.completed THEN Goto(r, "L388") ELSE Exit(r)
        /\ UNCHANGED facts
     \/ /\ At(r, "L388")                      \* lines 385-390: finally clause
        /\ Put(r, "COMPLETED", "Refurbishment completed successfully", STEPS.final, w.radio_info)
        /\ Exit(r)
        /\ UNCHANGED facts

\* mutant of WorkerCrash: the crash of one worker takes its siblings down
WorkerCrashTakesSiblings(r) ==
  /\ Running(r)
  /\ gateway[r] # "healthy"
  /\ worker' = [x \in DOMAIN worker |->
                  IF x = r \/ Running(x) THEN ExitedWorker ELSE worker[x]]
  /\ facts' = [facts EXCEPT ![r].crashed = TRUE]
  /\ NoPut
  /\ WorkerFrame

\* the worker process dies (killed or crashed) at whatever point it has reached
WorkerCrash(r) ==
  /\ Running(r)
  /\ gateway[r] # "healthy"
  /\ worker' = [worker EXCEPT ![r] = ExitedWorker]
  /\ facts' = [facts EXCEPT ![r].crashed = TRUE]
  /\ NoPut
  /\ WorkerFrame

(***************************************************************************)
(* monitor_status, operations.py:803-860 (daemon thread)                   *)
(***************************************************************************)
NumRadios == Len(radio_serial_numbers)

\* an entry of status_board; a missing "radio_info" key reads as {} everywhere
\* (status.get("radio_info", {})), so it is kept as the empty snapshot
Entry(status, message, step, radio_info) ==
  [status |-> status, message |-> message, step |-> step, radio_info |-> radio_info]

\* mutant of EntryOfMessage: the message's snapshot is merged into the old one
EntryOfMessageMerging(old, m) ==
  Entry(m.status, m.message, m.step, MergeInfo(old.radio_info, m.radio_info))

\* lines 826-834: the entry written for a 4-tuple message
EntryOfMessage(old, m) == Entry(m.status, m.message, m.step, m.radio_info)

MonitorFrame == UNCHANGED <<inputVars, worker, emitted, facts, verdicts,
                            stop_monitoring, main, failures>>

\* mutant of MonitorTop: the loop does not test stop_monitoring
MonitorTopNeverStops ==
  /\ monitor.pc = "top"
  /\ monitor' = [pc |-> "scan", idx |-> 1, messages_processed |-> 0]
  /\ UNCHANGED <<status_board, status_queues, finished_radios, merged>>
  /\ MonitorFrame

\* line 810: the while condition, evaluated after the sleep of line 860
MonitorTop ==
  /\ monitor.pc = "top"
  /\ monitor' = IF stop_monitoring
                  THEN [pc |-> "done", idx |-> 0, messages_processed |-> 0]
                  ELSE [pc |-> "scan", idx |-> 1, messages_processed |-> 0]
  /\ UNCHANGED <<status_board, status_queues, finished_radios, merged>>
  /\ MonitorFrame

\* lines 819-853: one q.get(block=False) that returns a message
MonitorGet ==
  /\ monitor.pc = "scan"
  /\ LET radio == radio_serial_numbers[monitor.idx]
         q == status_queues[radio]
         m == Head(q)
     IN /\ radio \notin finished_radios \/ monitor.messages_processed > 0
        /\ monitor.messages_processed < BatchLimit
        /\ q # <<>>
        /\ status_queues' = [status_queues EXCEPT ![radio] = Tail(q)]
        /\ status_board' = [status_board EXCEPT
                              ![radio] = EntryOfMessage(status_board[radio], m)]
        /\ finished_radios' = IF m.status \in TerminalStatuses
                                THEN finished_radios \cup {radio}
                                ELSE finished_radios
        /\ merged' = [merged EXCEPT ![radio] = MergeInfo(@, m.radio_info)]
        /\ monitor' = [monitor EXCEPT !.messages_processed = @ + 1]
  /\ MonitorFrame

\* mutant of MonitorNextQueue: a used-up batch ends the tick
MonitorNextQueueEndsTick ==
  /\ monitor.pc = "scan"
  /\ LET radio == radio_serial_numbers[monitor.idx]
     IN \/ radio \in finished_radios /\ monitor.messages_processed = 0
        \/ monitor.messages_processed >= BatchLimit
        \/ status_queues[radio] = <<>>
  /\ monitor' = IF monitor.idx < NumRadios /\ monitor.messages_processed < BatchLimit
                  THEN [pc |-> "scan", idx |-> monitor.idx + 1, messages_processed |-> 0]
                  ELSE [pc |-> "top", idx |-> 0, messages_processed |-> 0]
  /\ UNCHANGED <<status_board, status_queues, finished_radios, merged>>
  /\ MonitorFrame

\* lines 811-819, 855-857: skip a finished radio, queue.Empty, or batch exhausted
MonitorNextQueue ==
  /\ monitor.pc = "scan"
  /\ LET radio == radio_serial_numbers[monitor.idx]
     IN \/ radio \in finished_radios /\ monitor.messages_processed = 0
        \/ monitor.messages_processed >= BatchLimit
        \/ status_queues[radio] = <<>>
  /\ monitor' = IF monitor.idx < NumRadios
                  THEN [pc |-> "scan", idx |-> monitor.idx + 1, messages_processed |-> 0]
                  ELSE [pc |-> "top", idx |-> 0, messages_processed |-> 0]
  /\ UNCHANGED <<status_board, status_queues, finished_radios, merged>>
  /\ MonitorFrame

monitor_status == MonitorTop \/ MonitorGet \/ MonitorNextQueue

(***************************************************************************)
(* refurbish_radios_parallel, operations.py:756-903 (main thread) and      *)
(* verify_process_completion, operations.py:906-948                        *)
(***************************************************************************)
NoLocal == EmptyInfo

MainAt(pc) == main.pc = pc

MainNext(pcLoop, pcAfter) ==
  IF main.idx < NumRadios
    THEN [main EXCEPT !.pc = pcLoop, !.idx = main.idx + 1, !.local = NoLocal]
    ELSE [main EXCEPT !.pc = pcAfter, !.idx = 1, !.local = NoLocal]

MainFrame == UNCHANGED <<inputVars, monitor, finished_radios, merged, emitted, verdicts>>

\* lines 784-785: status_board[radio] = {"status": "PENDING", "message": "", "step": 0}
InitBoardEntry ==
  /\ MainAt("init_board")
  /\ LET radio == radio_serial_numbers[main.idx]
     IN status_board' = [x \in DOMAIN status_board \cup {radio} |->
                           IF x = radio THEN Entry("PENDING", "", 0, EmptyInfo)
                           ELSE status_board[x]]
  /\ main' = MainNext("init_board", "init_queues")
  /\ UNCHANGED <<status_queues, worker, facts, stop_monitoring, failures>>
  /\ MainFrame

\* line 788: one manager.Queue() per radio
CreateQueues ==
  /\ MainAt("init_queues")
  /\ status_queues' = [radio \in Radios |-> <<>>]
  /\ main' = [main EXCEPT !.pc = "start", !.idx = 1]
  /\ UNCHANGED <<status_board, worker, facts, stop_monitoring, failures>>
  /\ MainFrame

\* mutant of StartProcess: every process is created for the first radio
StartProcessForFirst ==
  /\ MainAt("start")
  /\ LET radio == radio_serial_numbers[1]
     IN worker' = [worker EXCEPT ![radio] =
                     [IdleWorker EXCEPT !.pc = "L250", !.radio_info = InitialRadioInfo]]
  /\ main' = MainNext("start", "start_monitor")
  /\ UNCHANGED <<status_board, status_queues, monitor, finished_radios, merged,
                 emitted, facts, verdicts, stop_monitoring, failures, inputVars>>

\* lines 792-798: process.start() for one radio
StartProcess ==
  /\ MainAt("start")
  /\ LET radio == radio_serial_numbers[main.idx]
     IN worker' = [worker EXCEPT ![radio] =
                     [IdleWorker EXCEPT !.pc = "L250", !.radio_info = InitialRadioInfo]]
  /\ main' = MainNext("start", "start_monitor")
  /\ UNCHANGED <<status_board, status_queues, monitor, finished_radios, merged,
                 emitted, facts, verdicts, stop_monitoring, failures, inputVars>>

\* lines 862-864: monitor_thread.start()
StartMonitor ==
  /\ MainAt("start_monitor")
  /\ monitor' = [monitor EXCEPT !.pc = "top"]
  /\ main' = [main EXCEPT !.pc = "join", !.idx = 1]
  /\ UNCHANGED <<status_board, status_queues, worker, finished_radios, merged,
                 emitted, facts, verdicts, stop_monitoring, failures, inputVars>>

\* mutant of JoinProcess: the join returns although the process is running
JoinProcessNoWait ==
  /\ MainAt("join")
  /\ main' = MainNext("join", "sleep")
  /\ UNCHANGED <<status_board, status_queues, worker, facts, stop_monitoring, failures>>
  /\ MainFrame

\* lines 868-869: process.join() returns once that worker has exited
JoinProcess ==
  /\ MainAt("join")
  /\ worker[radio_serial_numbers[main.idx]].pc = "exited"
  /\ main' = MainNext("join", "sleep")
  /\ UNCHANGED <<status_board, status_queues, worker, facts, stop_monitoring, failures>>
  /\ MainFrame

\* lines 872-875: the grace period, then verify_process_completion is entered
GracePeriod ==
  /\ MainAt("sleep")
  /\ main' = [main EXCEPT !.pc = "verify", !.idx = 1]
  /\ UNCHANGED <<status_board, status_queues, worker, facts, stop_monitoring, failures>>
  /\ MainFrame

\* mutant of VerifiedEntry: the late-stage test looks at the speed-test result
\* and at step >= 4 only
VerifiedEntryFromSpeedTest(status) ==
  IF status.status \in TerminalStatuses THEN status
  ELSE IF /\ status.status \in {"IN_PROGRESS", "PENDING"}
          /\ status.step >= 4
          /\ "speed_test" \in DOMAIN status.radio_info
    THEN Entry("COMPLETED", "Refurbishment completed successfully", 6, status.radio_info)
  ELSE IF status.status \in {"IN_PROGRESS", "PENDING"}
    THEN Entry("FAILED", "Process did not complete", status.step, status.radio_info)
  ELSE status

\* lines 914-945: what verify_process_completion decides for the entry it read;
\* the entry itself when it leaves it alone
VerifiedEntry(status) ==
  LET current_status == status.status
      current_step == status.step
      radio_info == status.radio_info
  IN IF current_status \in TerminalStatuses THEN status
     ELSE IF /\ current_status \in {"IN_PROGRESS", "PENDING"}
             /\ current_step >= 4
             /\ "speed_test" \in DOMAIN radio_info
             /\ current_step >= 5
       THEN Entry("COMPLETED", "Refurbishment completed successfully", 6, radio_info)
     ELSE IF current_status \in {"IN_PROGRESS", "PENDING"}
       THEN Entry("FAILED", "Process did not complete", current_step, radio_info)
     ELSE status

\* lines 910-921: read one radio's entry
VerifyRead ==
  /\ MainAt("verify")
  /\ LET status == status_board[radio_serial_numbers[main.idx]]
     IN main' = IF VerifiedEntry(status) = status
                  THEN MainNext("verify", "stop")
                  ELSE [main EXCEPT !.pc = "verify_write",
                                    !.local = VerifiedEntry(status)]
  /\ UNCHANGED <<status_board, status_queues, worker, facts, stop_monitoring, failures>>
  /\ MainFrame

\* lines 930-945: the write that follows the read
VerifyWrite ==
  /\ MainAt("verify_write")
  /\ status_board' = [status_board EXCEPT ![radio_serial_numbers[main.idx]] = main.local]
  /\ main' = MainNext("verify", "stop")
  /\ UNCHANGED <<status_queues, worker, facts, stop_monitoring, failures>>
  /\ MainFrame

verify_process_completion == VerifyRead \/ VerifyWrite

\* KeyboardInterrupt raised in the main thread inside the try block, lines 866-876
KeyboardInterrupt ==
  /\ main.pc \in {"join", "sleep", "verify", "verify_write"}
  /\ main' = [main EXCEPT !.pc = "terminate", !.idx = 1, !.local = NoLocal,
                          !.interrupted = TRUE,
                          !.completed_then =
                             {r \in Radios : status_board[r].status = "COMPLETED"}]
  /\ UNCHANGED <<status_board, status_queues, worker, facts, stop_monitoring, failures>>
  /\ MainFrame

\* KeyboardInterrupt raised in the main thread outside the try block: before it
\* (lines 790-864) or after it (lines 898-903) the exception leaves the function
\* at once; inside the except clause (lines 877-892) the finally clause runs
\* first and the exception leaves after monitor_thread.join(); inside the
\* finally clause (lines 893-896) it leaves at once
KeyboardInterruptEscapes ==
  /\ main.pc \in {"start", "start_monitor", "terminate", "items", "handle",
                  "stop", "join_monitor", "count"}
  /\ ~main.escaping
  /\ main' = IF main.pc \in {"terminate", "items", "handle"}
               THEN [main EXCEPT !.pc = "stop", !.idx = 1, !.local = NoLocal,
                                 !.items = NoLocal, !.escaping = TRUE]
               ELSE [main EXCEPT !.pc = "raised", !.idx = 1, !.local = NoLocal,
                                 !.items = NoLocal, !.escaping = TRUE]
  /\ UNCHANGED <<status_board, status_queues, worker, facts, stop_monitoring, failures>>
  /\ MainFrame

\* lines 878-879: process.terminate() for one radio
TerminateProcess ==
  /\ MainAt("terminate")
  /\ LET radio == radio_serial_numbers[main.idx]
     IN worker' = IF Running(radio)
                    THEN [worker EXCEPT ![radio] = ExitedWorker]
                    ELSE worker
  /\ UNCHANGED facts
  /\ main' = MainNext("terminate", "items")
  /\ UNCHANGED <<status_board, status_queues, stop_monitoring, failures>>
  /\ MainFrame

\* line 882: status_board.items() copies the table out of the manager
SnapshotItems ==
  /\ MainAt("items")
  /\ main' = [main EXCEPT !.pc = "handle", !.idx = 1, !.items = status_board]
  /\ UNCHANGED <<status_board, status_queues, worker, facts, stop_monitoring, failures>>
  /\ MainFrame

\* lines 883-891: the entry the interrupt handler writes for a copied entry
InterruptedEntry(status) ==
  IF status.status = "PENDING" \/ status.status = "IN_PROGRESS"
    THEN Entry("FAILED", "Operation interrupted by user", status.step, status.radio_info)
    ELSE status

\* lines 882-891: one iteration of the handler's loop over the copy
HandleInterrupted ==
  /\ MainAt("handle")
  /\ LET radio == radio_serial_numbers[main.idx]
         status == main.items[radio]
     IN status_board' = IF InterruptedEntry(status) = status
                          THEN status_board
                          ELSE [status_board EXCEPT ![radio] = InterruptedEntry(status)]
  /\ main' = IF main.idx < NumRadios
               THEN [main EXCEPT !.idx = main.idx + 1]
               ELSE [main EXCEPT !.pc = "stop", !.idx = 1, !.items = NoLocal]
  /\ UNCHANGED <<status_queues, worker, facts, stop_monitoring, failures>>
  /\ MainFrame

\* line 895
StopMonitoring ==
  /\ MainAt("stop")
  /\ stop_monitoring' = TRUE
  /\ main' = [main EXCEPT !.pc = "join_monitor"]
  /\ UNCHANGED <<status_board, status_queues, worker, facts, failures>>
  /\ MainFrame

\* mutant of JoinMonitor: the main thread does not wait for the monitor thread
JoinMonitorNoWait ==
  /\ MainAt("join_monitor")
  /\ main' = [main EXCEPT !.pc = IF main.escaping THEN "raised" ELSE "count"]
  /\ UNCHANGED <<status_board, status_queues, worker, facts, stop_monitoring, failures>>
  /\ MainFrame

\* line 896: monitor_thread.join()
JoinMonitor ==
  /\ MainAt("join_monitor")
  /\ monitor.pc = "done"
  /\ main' = [main EXCEPT !.pc = IF main.escaping THEN "raised" ELSE "count"]
  /\ UNCHANGED <<status_board, status_queues, worker, facts, stop_monitoring, failures>>
  /\ MainFrame

\* lines 899-901
CountFailures(board) == Cardinality({r \in DOMAIN board : board[r].status = "FAILED"})

\* lines 899-903
ReturnFailures ==
  /\ MainAt("count")
  /\ failures' = CountFailures(status_board)
  /\ main' = [main EXCEPT !.pc = "returned"]
  /\ UNCHANGED <<status_board, status_queues, worker, facts, stop_monitoring>>
  /\ MainFrame

refurbish_radios_parallel ==
  \/ StartProcess \/ StartMonitor \/ JoinProcess \/ GracePeriod
  \/ KeyboardInterrupt \/ KeyboardInterruptEscapes
  \/ TerminateProcess \/ SnapshotItems \/ HandleInterrupted
  \/ StopMonitoring \/ JoinMonitor \/ ReturnFailures

(***************************************************************************)
(* Specifications                                                          *)
(***************************************************************************)
\* main() is not part of the run: refurbish_radios_parallel is called directly
NoCli == [pc |-> "none"]

\* lines 780-788 have run: one PENDING entry and one empty queue per serial
InitFor(lists, profiles) ==
  /\ radio_serial_numbers \in lists
  /\ skip_speedtest \in BOOLEAN
  /\ skip_firmware \in BOOLEAN
  /\ gateway \in [Radios -> profiles]
  /\ status_board = [r \in Radios |-> Entry("PENDING", "", 0, EmptyInfo)]
  /\ status_queues = [r \in Radios |-> <<>>]
  /\ worker = [r \in Radios |-> IdleWorker]
  /\ monitor = [pc |-> "not_started", idx |-> 0, messages_processed |-> 0]
  /\ finished_radios = {}
  /\ stop_monitoring = FALSE
  /\ main = [pc |-> "start", idx |-> 1, local |-> NoLocal, items |-> NoLocal,
             interrupted |-> FALSE, completed_then |-> {}, escaping |-> FALSE]
  /\ failures = -1
  /\ emitted = [r \in Radios |-> 0]
  /\ merged = [r \in Radios |-> EmptyInfo]
  /\ facts = [r \in Radios |-> NoFacts]
  /\ verdicts = [r \in Radios |-> NoVerdicts]
  /\ cli = NoCli

\* one radio, any options, any gateway behaviour
Init == InitFor({<<"SN1">>}, {"any"})

\* a batch of two radios, speed tests skipped, firmware not skipped; the
\* gateway is faulty for SN1 and healthy for SN2
InitPair ==
  /\ InitFor({<<"SN1", "SN2">>}, {"healthy", "faulty"})
  /\ skip_speedtest
  /\ ~skip_firmware
  /\ gateway["SN1"] = "faulty"
  /\ gateway["SN2"] = "healthy"

\* verify_process_completion called on its own on a table of two radios whose
\* entries hold any status, any step and a snapshot with or without a
\* speed-test result; no worker and no monitor thread is running
TableStatuses == {"PENDING", "IN_PROGRESS", "WARNING", "COMPLETED", "FAILED"}
TableSteps == 0..6
TableInfos ==
  {EmptyInfo, FetchedRadioInfo,
   SetField(FetchedRadioInfo, "speed_test", FormatSpeed(50000, UplinkValue))}
TableEntries ==
  {Entry(status, "", step, radio_info) :
     status \in TableStatuses, step \in TableSteps, radio_info \in TableInfos}

InitVerify ==
  /\ radio_serial_numbers = <<"SN1", "SN2">>
  /\ skip_speedtest = FALSE
  /\ skip_firmware = FALSE
  /\ gateway = [r \in Radios |-> "any"]
  /\ status_board \in [Radios -> TableEntries]
  /\ status_queues = [r \in Radios |-> <<>>]
  /\ worker = [r \in Radios |-> IdleWorker]
  /\ monitor = [pc |-> "not_started", idx |-> 0, messages_processed |-> 0]
  /\ finished_radios = {}
  /\ stop_monitoring = FALSE
  /\ main = [pc |-> "verify", idx |-> 1, local |-> NoLocal, items |-> NoLocal,
             interrupted |-> FALSE, completed_then |-> {}, escaping |-> FALSE]
  /\ failures = -1
  /\ emitted = [r \in Radios |-> 0]
  /\ merged = [r \in Radios |-> EmptyInfo]
  /\ facts = [r \in Radios |-> NoFacts]
  /\ verdicts = [r \in Radios |-> NoVerdicts]
  /\ cli = NoCli

SpecVerify == InitVerify /\ [][verify_process_completion]_vars

\* refurbish_radios_parallel is entered with a list of one or two distinct
\* serials: the manager dict is empty and no queue exists (line 781)
DistinctLists ==
  {<<a>> : a \in Serials}
    \cup {l \in {<<a, b>> : a \in Serials, b \in Serials} : l[1] # l[2]}

InitBefore(pc, clis) ==
  /\ radio_serial_numbers \in DistinctLists
  /\ skip_speedtest \in BOOLEAN
  /\ skip_firmware \in BOOLEAN
  /\ gateway = [r \in Radios |-> "any"]
  /\ status_board = EmptyInfo
  /\ status_queues = EmptyInfo
  /\ worker = [r \in Radios |-> IdleWorker]
  /\ monitor = [pc |-> "not_started", idx |-> 0, messages_processed |-> 0]
  /\ finished_radios = {}
  /\ stop_monitoring = FALSE
  /\ main = [pc |-> pc, idx |-> 1, local |-> NoLocal, items |-> NoLocal,
             interrupted |-> FALSE, completed_then |-> {}, escaping |-> FALSE]
  /\ failures = -1
  /\ emitted = [r \in Radios |-> 0]
  /\ merged = [r \in Radios |-> EmptyInfo]
  /\ facts = [r \in Radios |-> NoFacts]
  /\ verdicts = [r \in Radios |-> NoVerdicts]
  /\ cli \in clis

InitStart == InitBefore("init_board", {NoCli})

(***************************************************************************)
(* main(), main.py:18-100: the --refurb branch of the command line          *)
(***************************************************************************)
\* parameters of refurbish_radios_parallel, operations.py:756-758
Parameters == {"radio_serial_numbers", "skip_speedtest", "skip_firmware", "verbose"}

\* keyword arguments of the call at main.py:78
CallKeywords == {"max_workers"}

\* values of --max-workers (default 5, main.py:38)
WorkerCounts == 1..5

\* main() has parsed --refurb with at least one serial (lines 41-71);
\* failure_count is a local of main() that is not bound yet
ParsedCli ==
  {[pc |-> "refurb", parallel |-> p, max_workers |-> k, idx |-> 1,
    success_count |-> 0, failure_count |-> 0, bound |-> FALSE, called |-> FALSE,
    results |-> 0, error |-> "", exit_code |-> -1] :
     p \in BOOLEAN, k \in WorkerCounts}

InitCli == InitBefore("not_called", ParsedCli)

CliFrame == UNCHANGED <<radio_serial_numbers, skip_speedtest, skip_firmware, gateway,
                        status_board, status_queues, worker, monitor,
                        finished_radios, stop_monitoring, main, failures, emitted,
                        merged, facts, verdicts>>

\* an exception nobody catches ends the interpreter with exit status 1
Uncaught(c, error) == [c EXCEPT !.pc = "exited", !.error = error, !.exit_code = 1]

\* lines 74-82: the parallel branch calls refurbish_radios_parallel with the
\* keyword max_workers and keeps its return value in `results`; the
\* sequential branch binds success_count and failure_count
CliRefurb ==
  /\ cli.pc = "refurb"
  /\ cli' = IF cli.parallel
              THEN IF CallKeywords \subseteq Parameters
                     THEN [cli EXCEPT !.pc = "check", !.called = TRUE,
                                      !.results = NumRadios]
                     ELSE Uncaught(cli, "TypeError")
              ELSE [cli EXCEPT !.pc = "sequential", !.bound = TRUE]
  /\ CliFrame

\* lines 84-90: one iteration of the sequential loop, refurbish_radio(serial)
\* returning True or False
CliSequentialStep ==
  /\ cli.pc = "sequential"
  /\ \E ok \in BOOLEAN :
       cli' = [cli EXCEPT !.success_count = IF ok THEN @ + 1 ELSE @,
                          !.failure_count = IF ok THEN @ ELSE @ + 1,
                          !.idx = @ + 1,
                          !.pc = IF cli.idx < NumRadios THEN "sequential" ELSE "check"]
  /\ CliFrame

\* lines 98-100: if failure_count > 0: sys.exit(1), else return
CliCheck ==
  /\ cli.pc = "check"
  /\ cli' = IF ~cli.bound THEN Uncaught(cli, "UnboundLocalError")
            ELSE [cli EXCEPT !.pc = "exited",
                             !.exit_code = IF cli.failure_count > 0 THEN 1 ELSE 0]
  /\ CliFrame

NextCli == CliRefurb \/ CliSequentialStep \/ CliCheck

SpecCli == InitCli /\ [][NextCli]_vars

\* one radio for which every gateway call succeeds, nothing skipped by option
InitHealthy ==
  /\ InitFor({<<"SN1">>}, {"healthy"})
  /\ ~skip_speedtest
  /\ ~skip_firmware

Worker(r) ==
  \/ worker_refurbish_radio(r)
  \/ wait_for_connection(r)
  \/ wait_for_reconnection(r)
  \/ run_speed_tests_with_results(r)
  \/ WorkerCrash(r)

Next ==
  \/ \E r \in Radios : Worker(r)
  \/ monitor_status
  \/ verify_process_completion
  \/ refurbish_radios_parallel

Spec == Init /\ [][Next]_vars

SpecPair == InitPair /\ [][Next]_vars

SpecHealthy == InitHealthy /\ [][Next]_vars

\* one radio, any gateway behaviour, speed tests skipped by option
InitQuick ==
  /\ InitFor({<<"SN1">>}, {"any"})
  /\ skip_speedtest

SpecQuick == InitQuick /\ [][Next]_vars

\* the steps a worker process takes by itself
WorkerSteps(r) ==
  \/ worker_refurbish_radio(r)
  \/ wait_for_connection(r)
  \/ wait_for_reconnection(r)
  \/ run_speed_tests_with_results(r)

\* lines 792-903 on the path on which no KeyboardInterrupt is raised
UninterruptedRun ==
  \/ StartProcess \/ StartMonitor \/ JoinProcess \/ GracePeriod
  \/ verify_process_completion
  \/ StopMonitoring \/ JoinMonitor \/ ReturnFailures

NextLive ==
  \/ \E r \in Radios : WorkerSteps(r)
  \/ monitor_status
  \/ UninterruptedRun

\* Every gateway call returns, so a worker that can take a step takes one; the
\* monitor thread and the main thread are scheduled whenever they can run.
\* No worker process is killed and no interrupt is delivered in this run.
FairLive ==
  /\ WF_vars(WorkerSteps("SN1"))
  /\ WF_vars(monitor_status)
  /\ WF_vars(UninterruptedRun)

\* one radio, any gateway behaviour, no operator interrupt; exactly one of the
\* two skip options is set, so that each polling loop is run under one of them
InitLive ==
  /\ InitFor({<<"SN1">>}, {"any"})
  /\ skip_speedtest # skip_firmware

SpecLive == InitLive /\ [][NextLive]_vars /\ FairLive

\* one worker with its monitor thread, any options, any gateway behaviour: the
\* main thread has started both and waits in process.join() (line 869)
InitWorker ==
  /\ radio_serial_numbers = <<"SN1">>
  /\ skip_speedtest \in BOOLEAN
  /\ skip_firmware \in BOOLEAN
  /\ gateway = [r \in Radios |-> "any"]
  /\ status_board = [r \in Radios |-> Entry("PENDING", "", 0, EmptyInfo)]
  /\ status_queues = [r \in Radios |-> <<>>]
  /\ worker = [r \in Radios |->
                 [IdleWorker EXCEPT !.pc = "L250", !.radio_info = InitialRadioInfo]]
  /\ monitor = [pc |-> "top", idx |-> 0, messages_processed |-> 0]
  /\ finished_radios = {}
  /\ stop_monitoring = FALSE
  /\ main = [pc |-> "join", idx |-> 1, local |-> NoLocal, items |-> NoLocal,
             interrupted |-> FALSE, completed_then |-> {}, escaping |-> FALSE]
  /\ failures = -1
  /\ emitted = [r \in Radios |-> 0]
  /\ merged = [r \in Radios |-> EmptyInfo]
  /\ facts = [r \in Radios |-> NoFacts]
  /\ verdicts = [r \in Radios |-> NoVerdicts]
  /\ cli = NoCli

NextWorker ==
  \/ \E r \in Radios : Worker(r)
  \/ monitor_status

SpecWorker == InitWorker /\ [][NextWorker]_vars

\* lines 780-798, with the workers already started running beside the main thread
NextStart ==
  \/ InitBoardEntry
  \/ CreateQueues
  \/ StartProcess
  \/ \E r \in Radios : Worker(r)

SpecStart == InitStart /\ [][NextStart]_vars

\* two workers with the monitor thread, speed tests skipped: the gateway is
\* faulty for SN1 and healthy for SN2; the main thread waits in process.join()
InitMonitor ==
  /\ radio_serial_numbers = <<"SN1", "SN2">>
  /\ skip_speedtest = TRUE
  /\ skip_firmware = FALSE
  /\ gateway = [r \in Radios |-> IF r = "SN1" THEN "faulty" ELSE "healthy"]
  /\ status_board = [r \in Radios |-> Entry("PENDING", "", 0, EmptyInfo)]
  /\ status_queues = [r \in Radios |-> <<>>]
  /\ worker = [r \in Radios |->
                 [IdleWorker EXCEPT !.pc = "L250", !.radio_info = InitialRadioInfo]]
  /\ monitor = [pc |-> "top", idx |-> 0, messages_processed |-> 0]
  /\ finished_radios = {}
  /\ stop_monitoring = FALSE
  /\ main = [pc |-> "join", idx |-> 1, local |-> NoLocal, items |-> NoLocal,
             interrupted |-> FALSE, completed_then |-> {}, escaping |-> FALSE]
  /\ failures = -1
  /\ emitted = [r \in Radios |-> 0]
  /\ merged = [r \in Radios |-> EmptyInfo]
  /\ facts = [r \in Radios |-> NoFacts]
  /\ verdicts = [r \in Radios |-> NoVerdicts]
  /\ cli = NoCli

SpecMonitor == InitMonitor /\ [][NextWorker]_vars

(***************************************************************************)
(* print_status_board_parallel, operations.py:951-1012: the progress glyphs *)
(* of one status line.  The function is called after every write of the   *)
(* monitor (line 853), by the interrupt handler (892) and by               *)
(* verify_process_completion (948), and only reads the table.              *)
(***************************************************************************)
\* len(STEP_SYMBOLS), lines 956-962
NumStepSymbols == 5

\* lines 980-992: the glyph at index i (0-based) of a line with this status and
\* step: red cross, green symbol, yellow symbol or "[ ]"
Glyph(status_str, step, i) ==
  IF status_str = "FAILED" /\ i = step - 1 THEN "failed"
  ELSE IF i < step THEN "completed"
  ELSE IF i = step - 1 /\ status_str \in {"IN_PROGRESS"} THEN "current"
  ELSE "not_reached"

\* lines 972-992: progress, one glyph per phase, for every serial of the table
print_status_board_parallel(board) ==
  [sn \in DOMAIN board |->
     [k \in 1..NumStepSymbols |-> Glyph(board[sn].status, board[sn].step, k - 1)]]

(***************************************************************************)
(* Properties                                                              *)
(***************************************************************************)
Returned == main.pc = "returned"

StatusOf(r) == status_board[r].status

\* C1: when refurbish_radios_parallel returns, every status-table entry is
\* COMPLETED or FAILED.
C1_AllTerminalAtReturn ==
  Returned => \A r \in Radios : StatusOf(r) \in TerminalStatuses

\* C2: once an entry's status is COMPLETED or FAILED, no later step changes
\* that status.
C2_TerminalStatusIsFinal ==
  [][\A r \in Radios :
       StatusOf(r) \in TerminalStatuses => status_board'[r].status = StatusOf(r)]_vars

\* C3: a device whose final apply_default_config returned success ends
\* COMPLETED when the function returns, provided no operator interrupt occurred.
C3_FinalizedEndsCompleted ==
  (Returned /\ ~main.interrupted) =>
     \A r \in Radios : facts[r].final_ok => StatusOf(r) = "COMPLETED"

\* C4: a device for which a gateway call of phase p returned failure ends
\* FAILED with recorded step p.
C4_FailedCallEndsFailedAtPhase ==
  Returned =>
     \A r \in Radios :
        facts[r].failed_call # 0 =>
           /\ StatusOf(r) = "FAILED"
           /\ status_board[r].step = facts[r].failed_call

\* C5: the step carried by the messages a worker puts never decreases from one
\* message to the next.
C5_EmittedStepMonotone ==
  [][\A r \in Radios : emitted'[r] >= emitted[r]]_vars

\* C6: after an operator interrupt, every device that was not COMPLETED when
\* the interrupt arrived ends FAILED with message "Operation interrupted by
\* user", and every device that was COMPLETED ends COMPLETED.
C6_InterruptFailsIncomplete ==
  (Returned /\ main.interrupted) =>
     \A r \in Radios :
        IF r \in main.completed_then
          THEN StatusOf(r) = "COMPLETED"
          ELSE /\ StatusOf(r) = "FAILED"
               /\ status_board[r].message = "Operation interrupted by user"

\* C7: the returned integer is the number of FAILED entries of the final table.
C7_ReturnCountsFailed ==
  Returned => failures = Cardinality({r \in Radios : StatusOf(r) = "FAILED"})

C7_Witness ==
  /\ Returned
  /\ failures = 1
  /\ \E r \in Radios : StatusOf(r) = "COMPLETED"

\* a step of the monitor thread that applies one message
MonitorApplies == monitor'.messages_processed = monitor.messages_processed + 1

\* the radio whose queue the monitor is reading
MonitoredRadio == radio_serial_numbers[monitor.idx]

WorkerStepOf(a) == worker'[a] # worker[a] /\ main' = main

\* C9: a step of A's worker, including its failure, exception or crash, leaves
\* B's entry, B's channel and B's worker untouched, and B's entry changes only
\* when a message of B's own channel is applied or the main thread writes it.
C9_FailureIsLocal ==
  [][\A a \in Radios : \A b \in Radios \ {a} :
       /\ WorkerStepOf(a) =>
            /\ status_board'[b] = status_board[b]
            /\ status_queues'[b] = status_queues[b]
            /\ worker'[b] = worker[b]
       /\ (MonitorApplies /\ MonitoredRadio = a) => status_board'[b] = status_board[b]
       /\ status_board'[b] # status_board[b] =>
            \/ /\ MonitorApplies
               /\ MonitoredRadio = b
               /\ status_queues'[b] = Tail(status_queues[b])
               /\ status_board'[b].status = Head(status_queues[b]).status
            \/ /\ main' # main
               /\ radio_serial_numbers[main.idx] = b]_vars

C9_Witness ==
  /\ Returned
  /\ ~main.interrupted
  /\ facts["SN1"].failed_call # 0 \/ facts["SN1"].raised \/ facts["SN1"].crashed
  /\ StatusOf("SN1") = "FAILED"
  /\ StatusOf("SN2") = "COMPLETED"

\* C10 (as stated): status-table entries are written only by the monitor loop.
C10_OnlyMonitorWrites ==
  [][status_board' # status_board => MonitorApplies]_vars

\* C10 (amended): status-table entries are written only by the coordinator
\* (the monitor loop applying a message, verify_process_completion, or the
\* interrupt handler); a worker never writes the table and puts messages only
\* on the channel of its own device.
C10_OnlyCoordinatorWrites ==
  [][/\ status_board' # status_board =>
          \/ MonitorApplies
          \/ main.pc \in {"verify_write", "handle"} /\ main' # main
     /\ \A r \in Radios :
          WorkerStepOf(r) =>
             /\ status_board' = status_board
             /\ \A b \in Radios \ {r} : status_queues'[b] = status_queues[b]
     /\ \A r \in Radios :
          Len(status_queues'[r]) > Len(status_queues[r]) => WorkerStepOf(r)]_vars

C10_Witness ==
  /\ \E r \in Radios : status_board[r].message = "Process did not complete"
  /\ \E r \in Radios : status_board[r].message = "Refurbishment completed successfully"

\* the reconciliation test of the specification: a speed-test result is in the
\* snapshot and the recorded step is at or past Finalize
LateStage(entry) ==
  "speed_test" \in DOMAIN entry.radio_info /\ entry.step >= STEPS.final

\* C11: verify_process_completion leaves COMPLETED and FAILED entries unchanged;
\* an entry it changes was PENDING or IN_PROGRESS and becomes COMPLETED exactly
\* when its snapshot holds a speed-test result and its step is at least 5, and
\* otherwise FAILED with message "Process did not complete"; when it is done no
\* entry is PENDING or IN_PROGRESS.
C11_VerifyDecides ==
  /\ [](main.pc = "stop" =>
          \A r \in Radios : StatusOf(r) \notin {"PENDING", "IN_PROGRESS"})
  /\ [][\A r \in Radios :
          LET old == status_board[r]
              new == status_board'[r]
          IN /\ old.status \in TerminalStatuses => new = old
             /\ new # old =>
                  /\ old.status \in {"PENDING", "IN_PROGRESS"}
                  /\ IF LateStage(old)
                       THEN new.status = "COMPLETED"
                       ELSE /\ new.status = "FAILED"
                            /\ new.message = "Process did not complete"]_vars

C11_Witness ==
  /\ main.pc = "stop"
  /\ status_board["SN1"].message = "Refurbishment completed successfully"
  /\ status_board["SN2"].message = "Process did not complete"

\* the messages that report an exhausted polling budget (parallel_worker.py:56, 151)
TimedOutMessages == {"Connection timed out after max attempts",
                     "Reconnection timed out after max attempts"}

\* C12: a device whose Connect phase exhausted its polling attempts ends, when
\* the function returns, FAILED with step 1 and a "timed out" message.
C12_ConnectTimeoutEndsTimedOut ==
  Returned =>
     \A r \in Radios :
        facts[r].connect_timeout =>
           /\ StatusOf(r) = "FAILED"
           /\ status_board[r].step = STEPS.connect
           /\ status_board[r].message \in TimedOutMessages

\* C13: a device for which every phase succeeds (firmware reported as skipped,
\* all speed-test rounds completed with a downlink figure, hostname reported as
\* REFURBISHED), whose worker was not killed and whose run was not interrupted,
\* ends COMPLETED with step 5, a speed_test figure formatted from a reported
\* downlink value, and hostname "REFURBISHED".
C13_HealthyRunEndsCompleted ==
  (Returned /\ ~main.interrupted) =>
     \A r \in Radios :
        (gateway[r] = "healthy" /\ ~facts[r].crashed) =>
           /\ StatusOf(r) = "COMPLETED"
           /\ status_board[r].step = STEPS.final
           /\ "speed_test" \in DOMAIN status_board[r].radio_info
           /\ status_board[r].radio_info.speed_test
                \in {FormatSpeed(d, UplinkValue) : d \in DownlinkValues}
           /\ "hostname" \in DOMAIN status_board[r].radio_info
           /\ status_board[r].radio_info.hostname = "REFURBISHED"

\* C14: when the run was interrupted and no worker had signalled COMPLETED, the
\* function returns the number of devices of the batch and every entry is FAILED.
C14_InterruptFailsWholeBatch ==
  (Returned /\ main.interrupted /\ \A r \in Radios : verdicts[r].completed = 0) =>
     /\ failures = NumRadios
     /\ \A r \in Radios : StatusOf(r) = "FAILED"

NotStarted(r) == worker[r].pc = "not_started"

C16_InterruptNotPropagated ==
  /\ main.pc = "raised" => \E r \in Radios : NotStarted(r)
  /\ (Returned /\ main.interrupted) => \A r \in Radios : ~Running(r)

\* C17: when main() has ended after --refurb --parallel, refurbish_radios_parallel
\* was run and the exit status is non-zero exactly when the count it returned
\* is greater than zero.
C17_ExitCodeReflectsFailures ==
  (cli.pc = "exited" /\ cli.parallel) =>
     /\ cli.called
     /\ (cli.exit_code # 0) <=> (cli.results > 0)

\* the worker of radio r puts a FAILED message in this step
PutsFailed(r) == verdicts'[r].failed > verdicts[r].failed

\* C18: a worker in which no exception was raised puts at most one FAILED
\* message, and the FAILED message that follows a failed gateway call of phase
\* p carries step p.
C18_ExactlyOneFailedMessage ==
  /\ [](\A r \in Radios : ~facts[r].raised => verdicts[r].failed <= 1)
  /\ [][\A r \in Radios :
          (PutsFailed(r) /\ facts[r].failed_call # 0) =>
             emitted'[r] = facts[r].failed_call]_vars

\* C19: a worker that ended by itself (not crashed, run not interrupted) has put
\* at least one COMPLETED or FAILED message, also after an exception; no worker
\* puts both a COMPLETED and a FAILED message, and none puts a non-terminal
\* message after a terminal one.
C19_SingleTerminalVerdict ==
  \A r \in Radios :
     /\ (worker[r].pc = "exited" /\ ~facts[r].crashed /\ ~main.interrupted) =>
           verdicts[r].failed + verdicts[r].completed >= 1
     /\ ~(verdicts[r].failed > 0 /\ verdicts[r].completed > 0)
     /\ ~verdicts[r].late

C19_Witness ==
  \E r \in Radios :
     /\ worker[r].pc = "exited"
     /\ facts[r].raised
     /\ ~facts[r].crashed
     /\ ~main.interrupted
     /\ verdicts[r].failed = 1

\* program points of run_speed_tests_with_results
SpeedTestPcs ==
  {"L412", "L431", "L444", "L449", "L452", "L459", "L461", "L465", "L474",
   "L489", "L494", "L501", "L508", "L516", "L524"}

\* C20: when run_speed_tests_with_results is left with fewer counted successful
\* rounds than requested, the worker goes on to report FAILED at step 4 (line
\* 351) and not to the final configuration.
C20_ExhaustedBudgetFails ==
  [][\A r \in Radios :
       (/\ worker[r].pc \in SpeedTestPcs
        /\ worker[r].successful_tests < SpeedNumTests
        /\ worker'[r].pc \notin SpeedTestPcs \cup {"exited", "L379"})
         => worker'[r].pc = "L351"]_vars

\* C21: in run_speed_tests_with_results the count of successful rounds grows,
\* by one, exactly in the step that handles a polled result with status
\* COMPLETED and a present downlink throughput (line 474 with a figure); the
\* attempt counter grows, by one, exactly when a round is started (line 444),
\* never exceeds the budget and is not given back when the initiation fails;
\* and a round is started only while fewer than num_tests rounds are counted
\* and the budget is not used up.
C21_RoundsCountedWithinBudget ==
  /\ [](\A r \in Radios :
          worker[r].pc \in SpeedTestPcs =>
             /\ worker[r].attempt <= SpeedMaxAttempts
             /\ worker[r].successful_tests <= SpeedNumTests)
  /\ [][\A r \in Radios :
          LET w == worker[r]
              v == worker'[r]
              starts == v.pc = "L444" /\ w.pc # "L444"
          IN (w.pc \in SpeedTestPcs /\ v.pc \in SpeedTestPcs /\ v # w) =>
                /\ v.successful_tests \in {w.successful_tests, w.successful_tests + 1}
                /\ (v.successful_tests = w.successful_tests + 1)
                      <=> (w.pc = "L474" /\ w.pend # 0)
                /\ v.attempt \in {w.attempt, w.attempt + 1}
                /\ (v.attempt = w.attempt + 1) <=> starts
                /\ starts => /\ w.successful_tests < SpeedNumTests
                             /\ w.attempt < SpeedMaxAttempts
                /\ w.pc = "L452" => v.attempt >= 1]_vars

\* the requested number of rounds is counted while attempts are left
C21_Witness ==
  \E r \in Radios :
     /\ worker[r].pc = "L524"
     /\ worker[r].successful_tests = SpeedNumTests
     /\ worker[r].attempt < SpeedMaxAttempts

\* C22: when run_speed_tests_with_results returns a result (line 526), the
\* speed_test figure the worker stores in its device snapshot (lines 355-358),
\* which the COMPLETED message then carries, is the figure of the most recent
\* counted round, the one the function's own snapshot shows (line 487).
C22_SnapshotKeepsLatestRound ==
  [][\A r \in Radios :
       (worker[r].pc = "L524" /\ worker'[r].pc = "L363") =>
          worker'[r].radio_info.speed_test = worker[r].q_info.speed_test]_vars

\* program points of wait_for_connection
WfcPcs == {"L30", "L37", "L39", "L44", "L51", "L56"}

\* wait_for_connection returns to its caller in this step: True at lines 45 and
\* 47 (to line 260 or 312), False at line 58 (to line 256 or 322)
WfcReturnsTrue(r) == worker[r].pc \in WfcPcs /\ worker'[r].pc \in {"L260", "L312"}
WfcReturnsFalse(r) == worker[r].pc \in WfcPcs /\ worker'[r].pc \in {"L256", "L322"}

\* the polling discipline of wait_for_connection in one step of worker r: the
\* polls are numbered 1..max_attempts; True is returned from the poll that
\* reported connected (line 39 without a queue, line 44 with one) and nothing is
\* polled after it; False is returned only when poll number max_attempts has
\* failed; the pause of lines 50-52 is taken only before a further poll.
WfcProtocol(r) ==
  LET w == worker[r]
      v == worker'[r]
  IN /\ (v.pc \in WfcPcs \ {"L30"}) => v.attempt \in 1..v.max_attempts
     /\ (v.pc = "L51") => v.attempt < v.max_attempts
     /\ (v.pc = "L44" /\ w.pc # "L44") => w.pc = "L39"
     /\ (w.pc = "L44" /\ v # w) => (WfcReturnsTrue(r) \/ v.pc = "exited")
     /\ WfcReturnsTrue(r) => w.pc = (IF w.has_queue THEN "L44" ELSE "L39")
     /\ (w.pc = "L56" /\ v # w) => (WfcReturnsFalse(r) \/ v.pc = "exited")
     /\ WfcReturnsFalse(r) => /\ w.attempt = w.max_attempts
                              /\ w.pc = (IF w.has_queue THEN "L56" ELSE "L39")
     /\ (w.pc \in WfcPcs /\ v.pc \in WfcPcs /\ v.attempt # w.attempt) =>
           /\ v.attempt = w.attempt + 1
           /\ w.pc \in {"L30", "L39", "L51"}

\* C23 as stated: wait_for_connection makes at most max_attempts polls, stops
\* at the first success, waits only between polls, and whenever it returns
\* False it has put a FAILED message in that step.
C23_ExhaustionAlwaysEmitsFailed ==
  [][\A r \in Radios :
       /\ WfcProtocol(r)
       /\ WfcReturnsFalse(r) => PutsFailed(r)]_vars

\* C23 amended: the same polling discipline; on exhaustion the FAILED message
\* (step 1) is put exactly when the call was given a queue (line 55); the call
\* without a queue (line 311) returns False without putting anything.
C23_ExhaustionEmitsFailedWithQueue ==
  [][\A r \in Radios :
       /\ WfcProtocol(r)
       /\ WfcReturnsFalse(r) =>
            IF worker[r].has_queue
              THEN PutsFailed(r) /\ emitted'[r] = STEPS.connect
              ELSE status_queues'[r] = status_queues[r]]_vars

\* a post-upgrade check has used up its polls; no FAILED message was put
C23_Witness ==
  \E r \in Radios :
     /\ worker[r].pc = "L322"
     /\ verdicts[r].failed = 0
     /\ ~facts[r].connect_timeout

\* program points at which the worker issues a device-changing gateway call:
\* apply_default_config (lines 283, 364), upgrade_radio_firmware (291),
\* reboot_radio (331), initiate_speed_test (449)
DeviceCallPcs == {"L283", "L291", "L331", "L449", "L364"}

\* C24: a worker that has put a FAILED message is never again at a
\* device-changing gateway call, and after a failed Configure call
\* (apply_default_config at line 283) it only puts its FAILED message and ends.
C24_NoDeviceCallAfterFailed ==
  \A r \in Radios :
     /\ verdicts[r].failed > 0 => worker[r].pc \notin DeviceCallPcs
     /\ facts[r].failed_call = STEPS.config => worker[r].pc \in {"L284", "exited"}

\* a Configure failure was reported and the worker has ended
C24_Witness ==
  \E r \in Radios :
     /\ facts[r].failed_call = STEPS.config
     /\ verdicts[r].failed = 1
     /\ emitted[r] = STEPS.config
     /\ worker[r].pc = "exited"
     /\ ~facts[r].crashed

\* program points of the Firmware phase after upgrade_radio_firmware reported an
\* initiated upgrade (lines 302-325), the checks of line 311 included
UpgradeWaitPcs == {"L302", "L306", "L312", "L315", "L318", "L322", "L325"}

InUpgradeWait(w) ==
  \/ w.pc \in UpgradeWaitPcs
  \/ w.pc \in WfcPcs /\ w.caller = "L311"

\* C25: once the upgrade is initiated, no FAILED message is put while the
\* worker waits for the device (lines 302-325); when no check has seen it
\* connected (line 324) the worker puts a WARNING message with step 3 and goes
\* on to the SpeedTest phase, or to Finalize through "Speed tests skipped"; and
\* the monitor, applying a WARNING message, writes it to the table without
\* adding the device to finished_radios.
C25_NoReconnectOnlyWarns ==
  /\ [][\A r \in Radios :
          LET w == worker[r]
              v == worker'[r]
          IN /\ (InUpgradeWait(w) /\ v # w) =>
                   /\ ~PutsFailed(r)
                   /\ facts[r].upgrade = "initiated"
             /\ (w.pc = "L325" /\ v # w /\ v.pc # "exited") =>
                   /\ status_queues'[r] = Append(status_queues[r],
                         Msg("WARNING", "[3/5] Radio did not reconnect after upgrade",
                             STEPS.firmware, w.radio_info))
                   /\ v.pc = (IF skip_speedtest THEN "L360" ELSE "L343")]_vars
  /\ [][(MonitorApplies /\ Head(status_queues[MonitoredRadio]).status = "WARNING") =>
          /\ finished_radios' = finished_radios
          /\ status_board'[MonitoredRadio].status = "WARNING"]_vars

\* the WARNING is on the table, the device is not finished and the worker is
\* entering the next phase
C25_Witness ==
  \E r \in Radios :
     /\ facts[r].upgrade = "initiated"
     /\ status_board[r].status = "WARNING"
     /\ status_board[r].step = STEPS.firmware
     /\ r \notin finished_radios
     /\ worker[r].pc \in {"L343", "L360"}
     /\ verdicts[r].failed = 0

\* program points of wait_for_reconnection, and of the reboot branch of the
\* Firmware phase (lines 326-339)
WfrPcs == {"L78", "L86", "L92", "L99", "L101", "L104", "L109", "L117", "L123",
           "L127", "L130", "L138", "L142"}
RebootPcs == {"L327", "L330", "L331", "L332", "L338"}

\* C26: when firmware is not skipped the worker never enters the reboot branch
\* or wait_for_reconnection; once upgrade_radio_firmware has answered
\* skipped=true it is never at the settling wait, at a post-upgrade check
\* (wait_for_connection of line 311) or after one; and from "Firmware already
\* up to date" (line 299) it goes straight to the next phase.
C26_UpToDateSkipsWaiting ==
  /\ [](\A r \in Radios :
          /\ ~skip_firmware => worker[r].pc \notin RebootPcs \cup WfrPcs
          /\ facts[r].upgrade = "skipped" =>
                /\ ~skip_firmware
                /\ worker[r].pc \notin UpgradeWaitPcs \cup WfcPcs \cup {"L291"})
  /\ [][\A r \in Radios :
          (worker[r].pc = "L299" /\ worker'[r] # worker[r]) =>
             /\ facts[r].upgrade = "skipped"
             /\ worker'[r].pc \in {IF skip_speedtest THEN "L360" ELSE "L343", "exited"}]_vars

\* the firmware was up to date and the worker is entering the next phase
C26_Witness ==
  \E r \in Radios :
     /\ facts[r].upgrade = "skipped"
     /\ worker[r].pc \in {"L343", "L360"}
     /\ emitted[r] = STEPS.firmware

\* program points of wait_for_reconnection reached after a poll that reported
\* connected=true (lines 107-135)
ConnectedSeenPcs == {"L109", "L117", "L123", "L127", "L130"}

\* C27: with skip_firmware set the worker is never at upgrade_radio_firmware and
\* comes to reboot_radio only from "Rebooting radio" (line 330); in the
\* reboot branch a FAILED message is put only after a failed reboot call (line
\* 332), on the exhausted polling budget (line 150) or by the caller after it
\* (line 338); and once a poll has reported connected=true the wait puts no
\* FAILED message and does not return failure to line 338.
C27_ConnectedPollEndsWait ==
  /\ [](\A r \in Radios :
          skip_firmware => worker[r].pc \notin {"L290", "L291"} \cup UpgradeWaitPcs)
  /\ [][\A r \in Radios :
          LET w == worker[r]
              v == worker'[r]
          IN /\ (v.pc = "L331" /\ w.pc # "L331") => w.pc = "L330"
             /\ (w.pc \in WfrPcs \cup RebootPcs /\ PutsFailed(r)) =>
                   \/ w.pc \in {"L332", "L338"}
                   \/ w.pc = "L142" /\ w.attempt = w.max_attempts
             /\ (w.pc \in ConnectedSeenPcs /\ v # w) =>
                   /\ ~PutsFailed(r)
                   /\ v.pc # "L338"]_vars

\* C28: the monitor applies a message only to a device that is not yet in
\* finished_radios, so the entry written from the first COMPLETED or FAILED
\* message of a device is not overwritten by a later message of its channel.
C28_NoMessageAppliedAfterTerminal ==
  [][MonitorApplies => MonitoredRadio \notin finished_radios]_vars

\* C29: a worker's message joins its channel at the tail; each message the
\* monitor applies is the head of the channel it is reading, it is removed
\* from that channel and the device's entry becomes exactly that message's
\* status, message, step and snapshot, no other entry changing; and between
\* monitor steps an entry changes only in a step of the main thread
\* (reconciliation or the interrupt handler).
C29_EntryFollowsChannelOrder ==
  /\ [][MonitorApplies =>
          LET m == Head(status_queues[MonitoredRadio])
          IN /\ status_queues[MonitoredRadio] # <<>>
             /\ status_queues' = [status_queues EXCEPT ![MonitoredRadio] = Tail(@)]
             /\ status_board' = [status_board EXCEPT ![MonitoredRadio] =
                                   Entry(m.status, m.message, m.step, m.radio_info)]]_vars
  /\ [][\A r \in Radios :
          (status_queues'[r] # status_queues[r] /\ ~MonitorApplies) =>
             /\ Len(status_queues'[r]) = Len(status_queues[r]) + 1
             /\ SubSeq(status_queues'[r], 1, Len(status_queues[r])) = status_queues[r]
             /\ worker'[r] # worker[r]]_vars
  /\ [][\A r \in Radios :
          status_board'[r] # status_board[r] =>
             \/ MonitorApplies /\ r = MonitoredRadio
             \/ main' # main]_vars

\* the monitor has applied the first of two queued messages of a device: the
\* entry shows it and the later message is still in the channel
C29_Witness ==
  \E r \in Radios :
     /\ monitor.pc = "scan"
     /\ monitor.messages_processed = 1
     /\ MonitoredRadio = r
     /\ status_queues[r] # <<>>
     /\ status_board[r].message = "[1/5] Starting refurbishment"
     /\ Head(status_queues[r]).message = "[1/5] Connecting to radio"

\* C30: when refurbish_radios_parallel has returned from a run that was not
\* interrupted, the channel of a device whose worker ended by itself and whose
\* terminal message the monitor has applied holds no message: the monitor loop
\* has taken every message that worker put.
C30_NoMessageLeftUnread ==
  \A r \in Radios :
     (/\ Returned
      /\ ~main.interrupted
      /\ ~facts[r].crashed
      /\ r \in finished_radios) => status_queues[r] = <<>>

\* C31: a tick of monitor_status starts at the first channel and goes through
\* the channels in order, ending only after the last one; at a channel the
\* monitor can always take a step (an empty channel is left at once); it
\* applies at most the batch limit of messages from one channel; and at the
\* channel of a device that is not finished, with a message waiting and the
\* batch not used up, the step it takes applies that message, whatever backlog
\* the channels before it hold.
C31_TickVisitsEveryChannel ==
  /\ [](/\ monitor.messages_processed <= BatchLimit
        /\ monitor.pc = "scan" =>
              /\ monitor.idx \in 1..NumRadios
              /\ ENABLED (MonitorGet \/ MonitorNextQueue))
  /\ [][monitor' # monitor =>
          /\ monitor.pc = "top" =>
                monitor' = IF stop_monitoring
                             THEN [pc |-> "done", idx |-> 0, messages_processed |-> 0]
                             ELSE [pc |-> "scan", idx |-> 1, messages_processed |-> 0]
          /\ monitor.pc = "scan" =>
                \/ MonitorApplies /\ monitor'.pc = "scan" /\ monitor'.idx = monitor.idx
                \/ /\ monitor.idx < NumRadios
                   /\ monitor' = [pc |-> "scan", idx |-> monitor.idx + 1,
                                  messages_processed |-> 0]
                \/ monitor.idx = NumRadios /\ monitor'.pc = "top"
          /\ (/\ monitor.pc = "scan"
              /\ MonitoredRadio \notin finished_radios
              /\ status_queues[MonitoredRadio] # <<>>
              /\ monitor.messages_processed < BatchLimit) => MonitorApplies]_vars

\* within one tick the monitor has applied a message of the second channel
\* while the first channel, of a device not finished, holds messages
C31_Witness ==
  /\ monitor.pc = "scan"
  /\ monitor.idx = 2
  /\ monitor.messages_processed >= 1
  /\ status_queues[radio_serial_numbers[1]] # <<>>
  /\ radio_serial_numbers[1] \notin finished_radios

\* C32: while the main thread is in the grace period (line 872) or in
\* verify_process_completion (line 875), between its read and its write of an
\* entry included, every worker process has ended: process.join() has returned
\* for each of them.
C32_VerifyAfterWorkersEnded ==
  main.pc \in {"sleep", "verify", "verify_write"} =>
     /\ ~main.interrupted
     /\ \A r \in Radios : worker[r].pc = "exited"

\* reconciliation is about to write an entry of a batch of two; both workers
\* have ended, one of them killed before its terminal message
C32_Witness ==
  /\ main.pc = "verify_write"
  /\ NumRadios = 2
  /\ \A r \in Radios : worker[r].pc = "exited"
  /\ \E r \in Radios : facts[r].crashed

\* C33: an entry whose status is COMPLETED or FAILED is not changed by a step
\* of the main thread: neither the write of verify_process_completion (lines
\* 930-945) nor that of the interrupt handler (lines 884-889) replaces a
\* terminal entry, whenever the monitor applied it.
C33_MainKeepsTerminalEntries ==
  [][\A r \in Radios :
       (/\ status_board[r].status \in TerminalStatuses
        /\ status_board'[r] # status_board[r]) => MonitorApplies]_vars

\* C34: when refurbish_radios_parallel has returned, a device whose entry is
\* COMPLETED is one whose worker got success from its final-configuration call
\* (apply_default_config at line 364).
C34_CompletedOnlyAfterFinalConfig ==
  \A r \in Radios :
     (Returned /\ StatusOf(r) = "COMPLETED") => facts[r].final_ok

\* C35: for an entry that is IN_PROGRESS at step p in 1..5, the status line
\* shows the phases before p as completed, phase p as current (not as
\* completed) and the phases after p as not reached.
C35_CurrentPhaseShownAsCurrent ==
  \A r \in DOMAIN status_board :
     LET p == status_board[r].step
         progress == print_status_board_parallel(status_board)[r]
     IN (status_board[r].status = "IN_PROGRESS" /\ p \in 1..5) =>
           \A k \in 1..NumStepSymbols :
              progress[k] = (IF k < p THEN "completed"
                             ELSE IF k = p THEN "current"
                             ELSE "not_reached")

\* C36: for an entry that is FAILED, whatever step it carries, exactly one
\* glyph of the status line is the failed-at-this-phase glyph.
C36_FailedLineHasOneFailedGlyph ==
  \A r \in DOMAIN status_board :
     status_board[r].status = "FAILED" =>
        Cardinality({k \in 1..NumStepSymbols :
                       print_status_board_parallel(status_board)[r][k] = "failed"}) = 1

\* C37: the step of every entry of the status table is 0 or one of the phase
\* numbers 1..5 of STEPS.
C37_StepIsPhaseNumber ==
  \A r \in DOMAIN status_board : status_board[r].step \in 0..STEPS.final

\* C38: an entry of the status table whose snapshot has a hostname belongs to
\* a device whose worker got success from the final apply_default_config
\* (line 364), and its status is COMPLETED.
C38_HostnameOnlyWhenCompleted ==
  \A r \in DOMAIN status_board :
     "hostname" \in DOMAIN status_board[r].radio_info =>
        /\ facts[r].final_ok
        /\ status_board[r].status = "COMPLETED"

\* the refreshed hostname is on the table
C38_Witness ==
  \E r \in Radios :
     /\ "hostname" \in DOMAIN status_board[r].radio_info
     /\ status_board[r].radio_info.hostname = "REFURBISHED"
     /\ status_board[r].status = "COMPLETED"
     /\ facts[r].final_ok

\* the device facts of a snapshot
DeviceFacts == {"firmware", "connected_bn", "hardware", "carrier_mode"}

\* C39: a device fact that the table's snapshot holds with a value is still
\* held with a value after the monitor has applied the next message of that
\* device, so the entry of a workflow that failed after Connect keeps the facts
\* recorded before the failure.
C39_KnownFactsAreKept ==
  [][MonitorApplies =>
       \A f \in DeviceFacts :
          LET old == status_board[MonitoredRadio].radio_info
              new == status_board'[MonitoredRadio].radio_info
          IN (f \in DOMAIN old /\ old[f] # "") => (f \in DOMAIN new /\ new[f] # "")]_vars

\* C40: with no interrupt and every gateway call returning, every polling loop
\* stays within its attempt budget, every worker ends, the monitor thread ends
\* once stop_monitoring is set, and refurbish_radios_parallel returns.
C40_RunTerminates ==
  /\ [](\A r \in Radios :
          LET w == worker[r]
          IN /\ w.pc \in WfcPcs \cup WfrPcs => w.attempt <= w.max_attempts
             /\ w.pc \in WfcPcs \cup WfrPcs =>
                   w.max_attempts \in {ConnectMaxAttempts, ReconnectMaxAttempts,
                                       UpgradeConnAttempts}
             /\ w.pc \in SpeedTestPcs => w.attempt <= SpeedMaxAttempts
             /\ w.i < UpgradeChecks)
  /\ <>(\A r \in Radios : worker[r].pc = "exited")
  /\ (stop_monitoring ~> monitor.pc = "done")
  /\ <>Returned

\* the run has returned after a Connect phase that used up its polling budget
C40_Witness ==
  /\ Returned
  /\ monitor.pc = "done"
  /\ \A r \in Radios : worker[r].pc = "exited"
  /\ \E r \in Radios : facts[r].connect_timeout /\ ~facts[r].crashed

=============================================================================
